---- MODULE Spec2Model ----
(***************************************************************************)
(* Djournal: the daily-state lifecycle and snapshot engine of the          *)
(* in-memory multi-user server (src/unnamed/part_004, lines 1-1812).       *)
(*                                                                         *)
(* Dates are modelled as UTC day numbers: new Date().toISOString()         *)
(* .slice(0, 10) is the UTC calendar date of the clock, and the zero-      *)
(* padded ISO strings the code compares with < and sorts are ordered as    *)
(* the day numbers are.  The server clock is taken to run in UTC (the      *)
(* image of the Dockerfile sets no time zone), so setDate(getDate() - n)   *)
(* followed by toISOString() is the UTC date n days earlier.               *)
(*                                                                         *)
(* An optional JavaScript value (undefined / null / a missing property)    *)
(* is the empty sequence, a present one a one-element sequence.            *)
(***************************************************************************)
EXTENDS Integers, Sequences, FiniteSets, TLC

VARIABLES
    userStates,            \* { userId: dailyState }, created on first access
    customFieldTemplates,  \* { userId: [...templates] }
    historicalData,        \* { userId: { 'YYYY-MM-DD': {...dailyData} } }
    snapshotSettings,      \* { userId: { maxDays, maxCount } }
    persistentTrackers,    \* { userId: { timeSinceTrackers, durationTrackers, customCounters } }
    nextId,                \* let nextId = 1
    now,                   \* the wall clock, Date.now() in milliseconds
    db,                    \* the SQLite tables of the database-backed server
    single,                \* the timers of the single-user server: its global dailyState
    runs                   \* history: per timer, its open and completed run intervals

vars == <<userStates, customFieldTemplates, historicalData, snapshotSettings,
          persistentTrackers, nextId, now, db, single, runs>>

----------------------------------------------------------------------------
(* Bounds of the model *)

MaxDay == 2        \* the clock stops at this UTC day
MaxTick == 1       \* clock ticks within one day
MaxId == 1         \* a creating request is served while nextId <= MaxId
MaxCounter == 1    \* a counter is not incremented beyond this value
MaxFieldId == 3    \* a template is created in SpecFields while nextId <= MaxFieldId
MaxTemplateRows == 2  \* rows ever inserted into custom_field_templates
MaxSeconds == 3661 \* largest value of the timer in the initial states of SpecDurations
MaxSkew == 2       \* minutes around each landmark in the initial states of SpecTimeSince
MaxLen == 3        \* longest name and text in the initial states of SpecQuoting
MaxArchived == 10  \* days archived in the initial states of SpecRetention
MaxKeep == 6       \* largest maxCount put in SpecRetention
MaxAge == 5        \* largest maxDays put in SpecPolicy
MaxRowId == 1      \* rows inserted into one table of the database

(* Program constants *)

MsPerDay == 86400000
DefaultMaxDays == 30
DefaultMaxCount == 100
MaxImageBytes == 20971520     \* 20 * 1024 * 1024

Users == {1, 2}
ActiveUsers == {1}
Ticks == {2500}

None == << >>
Some(x) == << x >>

TrackerNames == {"run"}
RefDates == {0}
CounterNames == {"water"}
Keys == {"mood"}
FieldKeys == {"mood", "energy"}
Values == {"great"}
Texts == {"note"}
Bedtimes == {None, Some("22:00")}
WakeTimes == {None, Some("07:00")}
\* base64 lengths: no image, the largest accepted image, the smallest rejected
ImageLengths == {0, 27962026, 27962027}
RetentionInputs == {None, Some(0), Some(1), Some(2)}
PolicyCounts == {Some(n) : n \in 0..MaxKeep}
PolicyDays == {Some(n) : n \in 0..MaxAge}
RangeDates == 0..(MaxArchived + 1)
RangeInputs == {None} \cup {Some(d) : d \in RangeDates}
Extensions == {"md", "pdf"}
\* JavaScript numbers are kept as whole numbers of 1/Unit: Unit is the number 1
Unit == 2
\* JSON values of a request body, by what typeof makes of them
JsonNumber(n) == [type |-> "number", num |-> n, str |-> ""]
JsonString(str) == [type |-> "string", num |-> 0, str |-> str]
JsonUndefined == [type |-> "undefined", num |-> 0, str |-> ""]
\* -1, 0, 1, a fraction, the string "1", no value
CounterInputs == {JsonNumber(0 - Unit), JsonNumber(0), JsonNumber(Unit), JsonNumber(1),
                  JsonString("1"), JsonUndefined}
ManualStarts == {0}
ManualElapsed == {5000}

----------------------------------------------------------------------------
(* Array helpers.  Array.prototype.filter is SelectSeq, map a function     *)
(* over the indices.                                                       *)

RECURSIVE SortDesc(_)
SortDesc(S) ==
    IF S = {} THEN << >>
    ELSE LET m == CHOOSE x \in S : \A y \in S : y <= x
         IN << m >> \o SortDesc(S \ {m})

\* Array.prototype.sort() on ISO date strings: ascending
RECURSIVE SortAsc(_)
SortAsc(S) ==
    IF S = {} THEN << >>
    ELSE LET m == CHOOSE x \in S : \A y \in S : x <= y
         IN << m >> \o SortAsc(S \ {m})

\* Array.prototype.slice(n), as a set of the elements kept
SliceFrom(s, n) == {s[i] : i \in {j \in 1..Len(s) : j > n}}

----------------------------------------------------------------------------
(* The clock *)

\* new Date().toISOString().slice(0, 10)
DateOf(t) == t \div MsPerDay

CurrentDate == DateOf(now)

----------------------------------------------------------------------------
(* The store as one value, so that the helper functions of the server are  *)
(* operators from store to store.                                          *)

World == [userStates |-> userStates,
          customFieldTemplates |-> customFieldTemplates,
          historicalData |-> historicalData,
          snapshotSettings |-> snapshotSettings,
          persistentTrackers |-> persistentTrackers,
          nextId |-> nextId]

CommitStore(w) ==
    /\ userStates' = w.userStates
    /\ customFieldTemplates' = w.customFieldTemplates
    /\ historicalData' = w.historicalData
    /\ snapshotSettings' = w.snapshotSettings
    /\ persistentTrackers' = w.persistentTrackers
    /\ nextId' = w.nextId

Commit(w) ==
    /\ CommitStore(w)
    /\ UNCHANGED <<db, single, runs>>

HasState(w, u) == w.userStates[u] # None
State(w, u) == w.userStates[u][1]
SetState(w, u, s) == [w EXCEPT !.userStates[u] = Some(s)]

NewState(date) ==
    [date |-> date,
     previousBedtime |-> "",
     wakeTime |-> "",
     customFields |-> << >>,
     dailyCustomFields |-> << >>,
     dailyTasks |-> << >>,
     customCounters |-> << >>,
     entries |-> << >>,
     timeSinceTrackers |-> << >>,
     durationTrackers |-> << >>]

\* initializePersistentTrackers: an absent record reads as three empty lists
EmptyTrackers ==
    [timeSinceTrackers |-> << >>, durationTrackers |-> << >>, customCounters |-> << >>]

\* a counter carried over with its value
KeepCounter(counter) == counter

ResetCounter(counter) == [counter EXCEPT !.value = 0]

\* a load that starts every timer afresh
LoadTrackersClearingTimers(w, u) ==
    LET userTrackers == w.persistentTrackers[u]
        state == State(w, u)
    IN SetState(w, u,
         [state EXCEPT !.timeSinceTrackers = userTrackers.timeSinceTrackers,
                       !.durationTrackers =
                           [i \in 1..Len(userTrackers.durationTrackers) |->
                              [userTrackers.durationTrackers[i] EXCEPT
                                 !.value = 0, !.isRunning = FALSE,
                                 !.startTime = None, !.elapsedMs = 0]],
                       !.customCounters =
                           [i \in 1..Len(userTrackers.customCounters) |->
                              ResetCounter(userTrackers.customCounters[i])]])

\* loadTrackersIntoState, for a user whose state exists
LoadTrackersIntoState(w, u) ==
    LET userTrackers == w.persistentTrackers[u]
        state == State(w, u)
    IN SetState(w, u,
         [state EXCEPT !.timeSinceTrackers = userTrackers.timeSinceTrackers,
                       !.durationTrackers = userTrackers.durationTrackers,
                       !.customCounters =
                           [i \in 1..Len(userTrackers.customCounters) |->
                              ResetCounter(userTrackers.customCounters[i])]])

\* getUserState: creates the state of the current date on first access
GetUserState(w, u, t) ==
    IF HasState(w, u) THEN w
    ELSE LoadTrackersIntoState(SetState(w, u, NewState(DateOf(t))), u)

\* a save that leaves the counters of the persistent record as they were
SaveTrackersWithoutCounters(w, u) ==
    LET state == State(w, u)
    IN [w EXCEPT !.persistentTrackers[u] =
          [timeSinceTrackers |-> state.timeSinceTrackers,
           durationTrackers |-> state.durationTrackers,
           customCounters |-> @.customCounters]]

\* saveTrackersToPersistent.  The tracker objects of the two duration and
\* time-since lists are shared between the state and the persistent record;
\* every handler that changes one ends with this call, so the two agree at
\* the end of every handler.
SaveTrackersToPersistent(w, u) ==
    LET state == State(w, u)
    IN [w EXCEPT !.persistentTrackers[u] =
          [timeSinceTrackers |-> state.timeSinceTrackers,
           durationTrackers |-> state.durationTrackers,
           customCounters |-> state.customCounters]]

----------------------------------------------------------------------------
(* The Snapshot Store *)

\* snapshotSettings[userId] || { maxDays: 30, maxCount: 100 }
EffectiveSettings(w, u) ==
    IF w.snapshotSettings[u] = None
    THEN [maxDays |-> Some(DefaultMaxDays), maxCount |-> Some(DefaultMaxCount)]
    ELSE w.snapshotSettings[u][1]

\* settings.x > 0: false for a missing property
Positive(opt) == opt # None /\ opt[1] > 0

\* a maxDays pass that also deletes the date equal to the cutoff
AgeKeptExclusive(dates, settings, t) ==
    IF Positive(settings.maxDays)
    THEN LET cutoffStr == DateOf(t) - settings.maxDays[1]
         IN {date \in dates : ~(date <= cutoffStr)}
    ELSE dates

\* a maxDays pass that deletes the dates from the cutoff on
AgeKeptInverted(dates, settings, t) ==
    IF Positive(settings.maxDays)
    THEN LET cutoffStr == DateOf(t) - settings.maxDays[1]
         IN {date \in dates : date < cutoffStr}
    ELSE dates

\* the dates the maxDays pass keeps
AgeKept(dates, settings, t) ==
    IF Positive(settings.maxDays)
    THEN LET cutoffStr == DateOf(t) - settings.maxDays[1]
         IN {date \in dates : ~(date < cutoffStr)}
    ELSE dates

\* a maxCount pass that sorts ascending and so keeps the oldest dates
CountKeptOldest(dates, settings) ==
    LET descending == SortDesc(dates)
        remainingDates == [i \in 1..Len(descending) |->
                             descending[Len(descending) + 1 - i]]
    IN IF Positive(settings.maxCount) /\ Len(remainingDates) > settings.maxCount[1]
       THEN dates \ SliceFrom(remainingDates, settings.maxCount[1])
       ELSE dates

\* the dates the maxCount pass keeps
CountKept(dates, settings) ==
    LET remainingDates == SortDesc(dates)
    IN IF Positive(settings.maxCount) /\ Len(remainingDates) > settings.maxCount[1]
       THEN dates \ SliceFrom(remainingDates, settings.maxCount[1])
       ELSE dates

\* cleanupOldSnapshots
CleanupOldSnapshots(w, u, t) ==
    LET settings == EffectiveSettings(w, u)
        userHistory == w.historicalData[u]
        kept == CountKept(AgeKept(DOMAIN userHistory, settings, t), settings)
    IN [w EXCEPT !.historicalData[u] = [date \in kept |-> userHistory[date]]]

\* the state stored without cloning
ShallowReference(state) == [ref |-> TRUE, data |-> state]

\* JSON.parse(JSON.stringify(state)): a value that shares nothing with the
\* live state.  A stored snapshot is a copy (ref = FALSE) or, were the state
\* stored without cloning, a reference to the live object (ref = TRUE).
DeepClone(state) == [ref |-> FALSE, data |-> state]

\* what reading historicalData[userId][date] yields
Snapshot(w, u, date) ==
    LET stored == w.historicalData[u][date]
    IN IF stored.ref /\ HasState(w, u) THEN State(w, u) ELSE stored.data

\* a store that keeps the snapshot it already has for the date
ArchiveIfAbsent(w, u) ==
    LET state == State(w, u)
        userHistory == w.historicalData[u]
    IN [w EXCEPT !.historicalData[u] =
          [d \in DOMAIN userHistory \cup {state.date} |->
             IF d \in DOMAIN userHistory THEN userHistory[d] ELSE DeepClone(state)]]

\* historicalData[userId][date] = ...
Archive(w, u) ==
    LET state == State(w, u)
        userHistory == w.historicalData[u]
    IN [w EXCEPT !.historicalData[u] =
          [d \in DOMAIN userHistory \cup {state.date} |->
             IF d = state.date THEN DeepClone(state) ELSE userHistory[d]]]

\* a save that stores the snapshot and skips the retention pass
ArchiveOnly(w, u, t) == Archive(GetUserState(w, u, t), u)

\* saveDailySnapshot
SaveDailySnapshot(w, u, t) ==
    CleanupOldSnapshots(Archive(GetUserState(w, u, t), u), u, t)

----------------------------------------------------------------------------
(* The day transition *)

BlankField(template) == [id |-> template.id, key |-> template.key, value |-> ""]

\* the reset without the assignment state.date = currentDate
ResetKeepingDate(w, u, t) ==
    LET state == State(w, u)
        userTemplates == w.customFieldTemplates[u]
    IN LoadTrackersIntoState(
         SetState(w, u,
           [state EXCEPT !.previousBedtime = "",
                         !.wakeTime = "",
                         !.customFields =
                             [i \in 1..Len(userTemplates) |-> BlankField(userTemplates[i])],
                         !.dailyCustomFields = << >>,
                         !.dailyTasks = << >>,
                         !.entries = << >>]),
         u)

\* the reset without rebuilding customFields from the templates
ResetKeepingFields(w, u, t) ==
    LET state == State(w, u)
    IN LoadTrackersIntoState(
         SetState(w, u,
           [state EXCEPT !.date = DateOf(t),
                         !.previousBedtime = "",
                         !.wakeTime = "",
                         !.dailyCustomFields = << >>,
                         !.dailyTasks = << >>,
                         !.entries = << >>]),
         u)

\* the body of the if of checkDateTransition after the snapshot is saved
ResetForNewDay(w, u, t) ==
    LET state == State(w, u)
        userTemplates == w.customFieldTemplates[u]
    IN LoadTrackersIntoState(
         SetState(w, u,
           [state EXCEPT !.date = DateOf(t),
                         !.previousBedtime = "",
                         !.wakeTime = "",
                         !.customFields =
                             [i \in 1..Len(userTemplates) |-> BlankField(userTemplates[i])],
                         !.dailyCustomFields = << >>,
                         !.dailyTasks = << >>,
                         !.entries = << >>]),
         u)

\* checkDateTransition
CheckDateTransition(w, u, t) ==
    LET w1 == GetUserState(w, u, t)
    IN IF State(w1, u).date # DateOf(t)
       THEN ResetForNewDay(SaveDailySnapshot(w1, u, t), u, t)
       ELSE w1

----------------------------------------------------------------------------
(* The database of the database-backed server: the tables its requests    *)
(* read and write, each a set of rows, and the AUTOINCREMENT sequences.    *)
EmptyDb == [daily_state |-> {},
            time_since_trackers |-> {},
            duration_trackers |-> {},
            custom_counters |-> {},
            custom_counter_values |-> {},
            activity_entries |-> {},
            custom_field_templates |-> {},
            daily_custom_fields |-> {},
            snapshot_settings |-> {},
            seq |-> [time_since_trackers |-> 0, duration_trackers |-> 0,
                     custom_counters |-> 0, activity_entries |-> 0,
                     custom_field_templates |-> 0]]

(* The single-user server keeps one dailyState for everybody; of it and of *)
(* the persistent copy the model keeps the duration trackers.              *)
EmptySingle == [dailyState |-> [durationTrackers |-> << >>],
                persistentTrackers |-> [u \in Users |-> None],
                nextId |-> 1]

(* No timer has run yet *)
NoRuns == [id \in 1..MaxId |-> [since |-> None, total |-> 0]]

(* Initial state: the module-level declarations of the server *)

Init ==
    /\ userStates = [u \in Users |-> None]
    /\ customFieldTemplates = [u \in Users |-> << >>]
    /\ historicalData = [u \in Users |-> [d \in {} |-> None]]
    /\ snapshotSettings = [u \in Users |-> None]
    /\ persistentTrackers = [u \in Users |-> EmptyTrackers]
    /\ nextId = 1
    /\ now = 0
    /\ db = EmptyDb
    /\ single = EmptySingle
    /\ runs = NoRuns

----------------------------------------------------------------------------
(* The clock advances on its own *)

Tick ==
    /\ \E d \in Ticks :
         /\ (now % MsPerDay) + d <= MaxTick * d
         /\ now' = now + d
    /\ UNCHANGED <<userStates, customFieldTemplates, historicalData,
                   snapshotSettings, persistentTrackers, nextId, db, single, runs>>

NewDay ==
    /\ \E k \in 1..MaxDay :
         /\ DateOf(now) + k <= MaxDay
         /\ now' = now + k * MsPerDay
    /\ UNCHANGED <<userStates, customFieldTemplates, historicalData,
                   snapshotSettings, persistentTrackers, nextId, db, single, runs>>

----------------------------------------------------------------------------
(* Handlers of the daily state *)

\* GET /api/state
GetStateHandler(w, u, t) == CheckDateTransition(w, u, t)

GetState(u) == Commit(GetStateHandler(World, u, now)) /\ UNCHANGED now

\* POST /api/daily: previousBedtime and wakeTime are optional in the body
UpdateDailyHandler(w, u, previousBedtime, wakeTime, t) ==
    LET w1 == GetUserState(w, u, t)
        state == State(w1, u)
        s1 == IF previousBedtime # None
              THEN [state EXCEPT !.previousBedtime = previousBedtime[1]] ELSE state
        s2 == IF wakeTime # None THEN [s1 EXCEPT !.wakeTime = wakeTime[1]] ELSE s1
    IN SetState(w1, u, s2)

UpdateDaily(u) ==
    /\ \E previousBedtime \in Bedtimes, wakeTime \in WakeTimes :
         Commit(UpdateDailyHandler(World, u, previousBedtime, wakeTime, now))
    /\ UNCHANGED now

\* a size check on the length of the base64 text itself
ImageTooLargeEncoded(imageLength) == imageLength > MaxImageBytes

\* the size check of POST /api/entry: (image.length * 3) / 4 > 20 * 1024 * 1024
ImageTooLarge(imageLength) == imageLength > 0 /\ 3 * imageLength > 4 * MaxImageBytes

\* toLocaleTimeString('en-US', { hour12: false }): the second of the day
TimeString(t) == (t % MsPerDay) \div 1000

\* POST /api/entry: an image is given by the length of its base64 text, 0 for none
AddEntryHandler(w, u, text, imageLength, t) ==
    IF ImageTooLarge(imageLength) THEN w
    ELSE LET w1 == GetUserState(w, u, t)
             state == State(w1, u)
             newEntry == [id |-> w1.nextId,
                          timestamp |-> TimeString(t),
                          text |-> text,
                          image |-> IF imageLength > 0 THEN Some(imageLength) ELSE None]
         IN [SetState(w1, u, [state EXCEPT !.entries = Append(@, newEntry)])
               EXCEPT !.nextId = @ + 1]

AddEntry(u) ==
    /\ nextId <= MaxId
    /\ \E text \in Texts, imageLength \in ImageLengths :
         Commit(AddEntryHandler(World, u, text, imageLength, now))
    /\ UNCHANGED now

\* str.replace(/"/g, '\\"') on a string kept as the sequence of its
\* characters: a backslash goes before every double quote
RECURSIVE EscapeQuotes(_)
EscapeQuotes(str) ==
    IF str = << >> THEN << >>
    ELSE (IF Head(str) = "\"" THEN << "\\", "\"" >> ELSE << Head(str) >>)
         \o EscapeQuotes(Tail(str))

\* the elements of a list, each put through f
Emitted(list, f(_)) == {f(list[i]) : i \in DOMAIN list}

\* generateMarkdownWithYAML, the front matter: what it puts between double
\* quotes for the user name, the names of the trackers and counters, the
\* values of the template and one-off fields that have one, and the texts
\* of the tasks
QuotedValues(dayData, username) ==
    (IF username # None THEN {username[1]} ELSE {})
    \cup Emitted(dayData.timeSinceTrackers, LAMBDA t : EscapeQuotes(t.name))
    \cup Emitted(dayData.durationTrackers, LAMBDA t : EscapeQuotes(t.name))
    \cup Emitted(dayData.customCounters, LAMBDA c : c.name)
    \cup Emitted(SelectSeq(dayData.customFields, LAMBDA f : f.value # << >>),
                 LAMBDA f : EscapeQuotes(f.value))
    \cup Emitted(SelectSeq(dayData.dailyCustomFields, LAMBDA f : f.value # << >>),
                 LAMBDA f : EscapeQuotes(f.value))
    \cup Emitted(dayData.dailyTasks, LAMBDA t : EscapeQuotes(t.text))

\* generateMarkdownWithYAML, the body: the image references it emits, one
\* per entry with an image, in the order of the entries
MarkdownImages(entries) ==
    LET withImage == SelectSeq(entries, LAMBDA e : e.image # None)
    IN [i \in 1..Len(withImage) |-> withImage[i].image[1]]

\* `${n}${unit}`, as the number and the unit
Part(n, unit) == [n |-> n, unit |-> unit]

\* 365.25 * 24 * 60, which is a whole number of minutes
MinutesPerYear == 525960

\* 30.44 * 24 * 60 as JavaScript evaluates it: the double 43833.600000000006,
\* just above 43833.6 = MonthTenths / 10
MonthTenths == 438336

\* Math.floor(diffMinutes / (30.44 * 24 * 60)) for 0 <= diffMinutes below a
\* year: the divisor lies above 43833.6 by less than any quotient that is
\* not whole lies from the next whole number, so the result is that of the
\* exact division, except that an exact multiple falls short of its quotient
MonthsIn(diffMinutes) ==
    IF diffMinutes > 0 /\ (diffMinutes * 10) % MonthTenths = 0
    THEN (diffMinutes * 10) \div MonthTenths - 1
    ELSE (diffMinutes * 10) \div MonthTenths

\* Math.floor(months * 30.44 * 24 * 60) for months up to 12: the product is
\* exact where it is whole (5 and 10 months)
MonthMinutes(months) == (months * MonthTenths) \div 10

\* calculateTimeSince, the numbers.  new Date(dateStr) is kept as the whole
\* minutes of the instant and the milliseconds within the minute (an
\* instant years away, in milliseconds, is beyond the integers of the
\* model); t is the clock, in milliseconds
TimeSinceUnits(then, t) ==
    LET diff0 == (t \div 60000) - then.min + (((t % 60000) - then.ms) \div 60000)
        years == diff0 \div MinutesPerYear
        diff1 == diff0 - years * MinutesPerYear
        months == MonthsIn(diff1)
        diff2 == diff1 - MonthMinutes(months)
        weeks == diff2 \div (7 * 24 * 60)
        diff3 == diff2 - weeks * 7 * 24 * 60
        days == diff3 \div (24 * 60)
        diff4 == diff3 - days * 24 * 60
        hours == diff4 \div 60
        diff5 == diff4 - hours * 60
    IN [years |-> years, months |-> months, weeks |-> weeks, days |-> days,
        hours |-> hours, minutes |-> diff5]

\* calculateTimeSince, the parts it joins
CalculateTimeSince(then, t) ==
    LET n == TimeSinceUnits(then, t)
        p1 == IF n.years > 0 THEN << Part(n.years, "y") >> ELSE << >>
        p2 == IF n.months > 0 THEN Append(p1, Part(n.months, "mo")) ELSE p1
        p3 == IF n.weeks > 0 THEN Append(p2, Part(n.weeks, "w")) ELSE p2
        p4 == IF n.days > 0 THEN Append(p3, Part(n.days, "d")) ELSE p3
        p5 == IF n.hours > 0 THEN Append(p4, Part(n.hours, "h")) ELSE p4
    IN IF n.minutes > 0 \/ Len(p5) = 0 THEN Append(p5, Part(n.minutes, "m")) ELSE p5

\* formatDuration(seconds) of the multi-user servers: the parts it joins
FormatDuration(seconds) ==
    LET hours == seconds \div 3600
        minutes == (seconds % 3600) \div 60
        secs == seconds % 60
        parts1 == IF hours > 0 THEN << Part(hours, "h") >> ELSE << >>
        parts2 == IF minutes > 0 THEN Append(parts1, Part(minutes, "m")) ELSE parts1
    IN IF secs > 0 \/ Len(parts2) = 0 THEN Append(parts2, Part(secs, "s")) ELSE parts2

\* formatDuration(seconds) of the single-user server
SingleFormatDuration(seconds) ==
    LET hours == seconds \div 3600
        minutes == (seconds % 3600) \div 60
        secs == seconds % 60
    IN IF hours > 0 THEN << Part(hours, "h"), Part(minutes, "m"), Part(secs, "s") >>
       ELSE IF minutes > 0 THEN << Part(minutes, "m"), Part(secs, "s") >>
       ELSE << Part(secs, "s") >>

\* GET /api/download and GET /api/download-pdf: the same effect on the store
DownloadHandler(w, u, t) == SaveDailySnapshot(CheckDateTransition(w, u, t), u, t)

Download(u) == Commit(DownloadHandler(World, u, now)) /\ UNCHANGED now

\* POST /api/exports/save-snapshot
SaveSnapshotHandler(w, u, t) == GetUserState(SaveDailySnapshot(w, u, t), u, t)

SaveSnapshot(u) == Commit(SaveSnapshotHandler(World, u, now)) /\ UNCHANGED now

\* DELETE /api/exports/snapshot/:date
DeleteSnapshotHandler(w, u, date) ==
    LET userHistory == w.historicalData[u]
    IN IF date \notin DOMAIN userHistory THEN w
       ELSE [w EXCEPT !.historicalData[u] =
               [d \in DOMAIN userHistory \ {date} |-> userHistory[d]]]

DeleteSnapshot(u) ==
    /\ \E date \in DOMAIN historicalData[u] \cup {CurrentDate} :
         Commit(DeleteSnapshotHandler(World, u, date))
    /\ UNCHANGED now

\* a range whose upper bound is left out
DatesInRangeExclusive(w, u, startDate, endDate) ==
    SortAsc({date \in DOMAIN w.historicalData[u] : date >= startDate /\ date < endDate})

\* Object.keys(userHistory).filter(date => date >= startDate && date <= endDate).sort()
DatesInRange(w, u, startDate, endDate) ==
    SortAsc({date \in DOMAIN w.historicalData[u] : date >= startDate /\ date <= endDate})

\* POST /api/exports/date-range: the response, the store is only read
DateRangeHandler(w, u, startDate, endDate) ==
    IF startDate = None \/ endDate = None
    THEN [status |-> 400, dates |-> << >>]
    ELSE LET dates == DatesInRange(w, u, startDate[1], endDate[1])
         IN [status |-> 200,
             dates |-> [i \in 1..Len(dates) |->
                          [date |-> dates[i], data |-> Snapshot(w, u, dates[i])]]]

DateRange(u) ==
    /\ \E startDate \in RangeInputs, endDate \in RangeInputs :
         DateRangeHandler(World, u, startDate, endDate).status \in {200, 400}
    /\ UNCHANGED vars

\* POST /api/exports/download-range and download-range-pdf: the response.
\* The body is the rendering of the days in order, the file name is
\* `${startDate}.${ext}` or `${startDate}_to_${endDate}.${ext}`, given by
\* its parts.
DownloadRangeHandler(w, u, startDate, endDate, ext) ==
    IF startDate = None \/ endDate = None
    THEN [status |-> 400, days |-> << >>, filename |-> << >>]
    ELSE LET dates == DatesInRange(w, u, startDate[1], endDate[1])
         IN IF Len(dates) = 0
            THEN [status |-> 404, days |-> << >>, filename |-> << >>]
            ELSE [status |-> 200,
                  days |-> [i \in 1..Len(dates) |->
                              [date |-> dates[i], data |-> Snapshot(w, u, dates[i])]],
                  filename |-> IF Len(dates) = 1
                               THEN << startDate[1], ext >>
                               ELSE << startDate[1], "_to_", endDate[1], ext >>]

DownloadRange(u) ==
    /\ \E startDate \in RangeInputs, endDate \in RangeInputs, ext \in Extensions :
         DownloadRangeHandler(World, u, startDate, endDate, ext).status \in {200, 400, 404}
    /\ UNCHANGED vars

\* the file name of GET /api/download and /api/download-pdf: `${state.date}.${ext}`
DownloadFilename(w, u, t, ext) == << State(DownloadHandler(w, u, t), u).date, ext >>

\* parseInt of a JSON integer
ParseInt(n) == n

\* PUT /api/exports/retention-settings: maxDays and maxCount are optional
PutRetentionSettingsHandler(w, u, maxDays, maxCount, t) ==
    LET old == IF w.snapshotSettings[u] = None
               THEN [maxDays |-> None, maxCount |-> None]
               ELSE w.snapshotSettings[u][1]
        s1 == IF maxDays # None
              THEN [old EXCEPT !.maxDays = Some(ParseInt(maxDays[1]))] ELSE old
        s2 == IF maxCount # None
              THEN [s1 EXCEPT !.maxCount = Some(ParseInt(maxCount[1]))] ELSE s1
    IN CleanupOldSnapshots([w EXCEPT !.snapshotSettings[u] = Some(s2)], u, t)

PutRetentionSettingsFrom(u, daysInputs, countInputs) ==
    /\ \E maxDays \in daysInputs, maxCount \in countInputs :
         Commit(PutRetentionSettingsHandler(World, u, maxDays, maxCount, now))
    /\ UNCHANGED now

PutRetentionSettings(u) == PutRetentionSettingsFrom(u, RetentionInputs, RetentionInputs)

----------------------------------------------------------------------------
(* Handlers of the Tracker Registry.  Each one ends by saving the trackers *)
(* of the state to the persistent record.                                  *)

\* list.find(x => x.id === id): the index of the first match, 0 for none
IndexOfId(list, id) ==
    IF \E i \in 1..Len(list) : list[i].id = id
    THEN CHOOSE i \in 1..Len(list) :
           list[i].id = id /\ \A j \in 1..(i - 1) : list[j].id # id
    ELSE 0

\* list.find(x => x.key === key)
IndexOfKey(list, key) ==
    IF \E i \in 1..Len(list) : list[i].key = key
    THEN CHOOSE i \in 1..Len(list) :
           list[i].key = key /\ \A j \in 1..(i - 1) : list[j].key # key
    ELSE 0

\* list.filter(x => x.id !== id)
WithoutId(list, id) == SelectSeq(list, LAMBDA x : x.id # id)

\* list.filter(x => x.key !== key)
WithoutKey(list, key) == SelectSeq(list, LAMBDA x : x.key # key)

\* POST /api/trackers/time-since
CreateTimeSinceHandler(w, u, name, date, t) ==
    LET w1 == GetUserState(w, u, t)
        state == State(w1, u)
        newTracker == [id |-> w1.nextId, name |-> name, date |-> date]
    IN SaveTrackersToPersistent(
         [SetState(w1, u, [state EXCEPT !.timeSinceTrackers = Append(@, newTracker)])
            EXCEPT !.nextId = @ + 1], u)

CreateTimeSince(u) ==
    /\ nextId <= MaxId
    /\ \E name \in TrackerNames, date \in RefDates :
         Commit(CreateTimeSinceHandler(World, u, name, date, now))
    /\ UNCHANGED now

\* DELETE /api/trackers/time-since/:id
DeleteTimeSinceHandler(w, u, id, t) ==
    LET w1 == GetUserState(w, u, t)
        state == State(w1, u)
    IN SaveTrackersToPersistent(
         SetState(w1, u, [state EXCEPT !.timeSinceTrackers = WithoutId(@, id)]), u)

DeleteTimeSince(u) ==
    /\ \E id \in 1..MaxId : Commit(DeleteTimeSinceHandler(World, u, id, now))
    /\ UNCHANGED now

\* POST /api/trackers/duration
CreateDurationHandler(w, u, name, t) ==
    LET w1 == GetUserState(w, u, t)
        state == State(w1, u)
        newTracker == [id |-> w1.nextId,
                       name |-> name,
                       type |-> "timer",
                       value |-> 0,
                       isRunning |-> FALSE,
                       startTime |-> None,
                       elapsedMs |-> 0]
    IN SaveTrackersToPersistent(
         [SetState(w1, u, [state EXCEPT !.durationTrackers = Append(@, newTracker)])
            EXCEPT !.nextId = @ + 1], u)

CreateDuration(u) ==
    /\ nextId <= MaxId
    /\ \E name \in TrackerNames : Commit(CreateDurationHandler(World, u, name, now))
    /\ UNCHANGED now

\* DELETE /api/trackers/duration/:id
DeleteDurationHandler(w, u, id, t) ==
    LET w1 == GetUserState(w, u, t)
        state == State(w1, u)
    IN SaveTrackersToPersistent(
         SetState(w1, u, [state EXCEPT !.durationTrackers = WithoutId(@, id)]), u)

DeleteDuration(u) ==
    /\ \E id \in 1..MaxId : Commit(DeleteDurationHandler(World, u, id, now))
    /\ UNCHANGED now

\* POST /api/trackers/manual-time: 404 and 400 return before anything is saved
ManualTimeHandler(w, u, trackerId, startTime, elapsedMs, t) ==
    LET w1 == GetUserState(w, u, t)
        state == State(w1, u)
        i == IndexOfId(state.durationTrackers, trackerId)
    IN IF i = 0 THEN w1
       ELSE IF state.durationTrackers[i].type # "timer" THEN w1
       ELSE SaveTrackersToPersistent(
              SetState(w1, u,
                [state EXCEPT !.durationTrackers[i].startTime = Some(startTime),
                              !.durationTrackers[i].elapsedMs = elapsedMs,
                              !.durationTrackers[i].isRunning = FALSE]), u)

\* the status POST /api/trackers/manual-time answers with
ManualTimeStatus(w, u, trackerId, t) ==
    LET list == State(GetUserState(w, u, t), u).durationTrackers
        i == IndexOfId(list, trackerId)
    IN IF i = 0 THEN 404
       ELSE IF list[i].type # "timer" THEN 400
       ELSE 200

ManualTime(u) ==
    /\ \E trackerId \in 1..MaxId, startTime \in ManualStarts, elapsedMs \in ManualElapsed :
         Commit(ManualTimeHandler(World, u, trackerId, startTime, elapsedMs, now))
    /\ UNCHANGED now

\* POST /api/trackers/timer/start/:id
TimerStartHandler(w, u, id, t) ==
    LET w1 == GetUserState(w, u, t)
        state == State(w1, u)
        i == IndexOfId(state.durationTrackers, id)
    IN SaveTrackersToPersistent(
         IF i # 0 /\ state.durationTrackers[i].type = "timer"
         THEN SetState(w1, u,
                [state EXCEPT !.durationTrackers[i].isRunning = TRUE,
                              !.durationTrackers[i].startTime = Some(t)])
         ELSE w1, u)

TimerStart(u) ==
    /\ \E id \in 1..MaxId : Commit(TimerStartHandler(World, u, id, now))
    /\ UNCHANGED now

\* POST /api/trackers/timer/stop/:id
TimerStopHandler(w, u, id, t) ==
    LET w1 == GetUserState(w, u, t)
        state == State(w1, u)
        i == IndexOfId(state.durationTrackers, id)
    IN SaveTrackersToPersistent(
         IF i # 0 /\ state.durationTrackers[i].type = "timer"
                  /\ state.durationTrackers[i].isRunning
         THEN LET tracker == state.durationTrackers[i]
                  elapsed == t - tracker.startTime[1]
                  total == tracker.elapsedMs + elapsed
              IN SetState(w1, u,
                   [state EXCEPT !.durationTrackers[i].elapsedMs = total,
                                 !.durationTrackers[i].value = total \div 1000,
                                 !.durationTrackers[i].isRunning = FALSE,
                                 !.durationTrackers[i].startTime = None])
         ELSE w1, u)

TimerStop(u) ==
    /\ \E id \in 1..MaxId : Commit(TimerStopHandler(World, u, id, now))
    /\ UNCHANGED now

\* POST /api/trackers/timer/reset/:id
TimerResetHandler(w, u, id, t) ==
    LET w1 == GetUserState(w, u, t)
        state == State(w1, u)
        i == IndexOfId(state.durationTrackers, id)
    IN SaveTrackersToPersistent(
         IF i # 0 /\ state.durationTrackers[i].type = "timer"
         THEN SetState(w1, u,
                [state EXCEPT !.durationTrackers[i].value = 0,
                              !.durationTrackers[i].isRunning = FALSE,
                              !.durationTrackers[i].startTime = None,
                              !.durationTrackers[i].elapsedMs = 0])
         ELSE w1, u)

TimerReset(u) ==
    /\ \E id \in 1..MaxId : Commit(TimerResetHandler(World, u, id, now))
    /\ UNCHANGED now

\* POST /api/custom-counters/create (an empty name is answered 400)
CounterCreateHandler(w, u, name, t) ==
    IF name = "" THEN w
    ELSE LET w1 == GetUserState(w, u, t)
             state == State(w1, u)
             newCounter == [id |-> w1.nextId, name |-> name, value |-> 0]
         IN SaveTrackersToPersistent(
              [SetState(w1, u, [state EXCEPT !.customCounters = Append(@, newCounter)])
                 EXCEPT !.nextId = @ + 1], u)

CounterCreate(u) ==
    /\ nextId <= MaxId
    /\ \E name \in CounterNames : Commit(CounterCreateHandler(World, u, name, now))
    /\ UNCHANGED now

\* POST /api/custom-counters/:id/increment
CounterIncrementHandler(w, u, id, t) ==
    LET w1 == GetUserState(w, u, t)
        state == State(w1, u)
        i == IndexOfId(state.customCounters, id)
    IN SaveTrackersToPersistent(
         IF i # 0
         THEN SetState(w1, u, [state EXCEPT !.customCounters[i].value = @ + Unit])
         ELSE w1, u)

CounterIncrement(u) ==
    /\ \E id \in 1..MaxId :
         /\ \A i \in 1..Len(IF HasState(World, u) THEN State(World, u).customCounters
                            ELSE << >>) :
              State(World, u).customCounters[i].id = id
                 => State(World, u).customCounters[i].value < MaxCounter * Unit
         /\ Commit(CounterIncrementHandler(World, u, id, now))
    /\ UNCHANGED now

\* POST /api/custom-counters/:id/decrement
CounterDecrementHandler(w, u, id, t) ==
    LET w1 == GetUserState(w, u, t)
        state == State(w1, u)
        i == IndexOfId(state.customCounters, id)
    IN SaveTrackersToPersistent(
         IF i # 0 /\ state.customCounters[i].value > 0
         THEN SetState(w1, u, [state EXCEPT !.customCounters[i].value = @ - Unit])
         ELSE w1, u)

CounterDecrement(u) ==
    /\ \E id \in 1..MaxId : Commit(CounterDecrementHandler(World, u, id, now))
    /\ UNCHANGED now

\* PUT /api/custom-counters/:id/set: typeof value === 'number' && value >= 0
CounterSetHandler(w, u, id, value, t) ==
    LET w1 == GetUserState(w, u, t)
        state == State(w1, u)
        i == IndexOfId(state.customCounters, id)
    IN SaveTrackersToPersistent(
         IF i # 0 /\ value.type = "number" /\ value.num >= 0
         THEN SetState(w1, u, [state EXCEPT !.customCounters[i].value = value.num])
         ELSE w1, u)

CounterSet(u) ==
    /\ \E id \in 1..MaxId, value \in CounterInputs :
         Commit(CounterSetHandler(World, u, id, value, now))
    /\ UNCHANGED now

\* DELETE /api/custom-counters/:id
CounterDeleteHandler(w, u, id, t) ==
    LET w1 == GetUserState(w, u, t)
        state == State(w1, u)
    IN SaveTrackersToPersistent(
         SetState(w1, u, [state EXCEPT !.customCounters = WithoutId(@, id)]), u)

CounterDelete(u) ==
    /\ \E id \in 1..MaxId : Commit(CounterDeleteHandler(World, u, id, now))
    /\ UNCHANGED now

----------------------------------------------------------------------------
(* Daily fields, tasks and template fields *)

\* POST /api/daily-custom-fields (an empty key is answered 400)
DailyFieldSetHandler(w, u, key, value, t) ==
    IF key = "" THEN w
    ELSE LET w1 == GetUserState(w, u, t)
             state == State(w1, u)
             i == IndexOfKey(state.dailyCustomFields, key)
         IN IF i # 0
            THEN SetState(w1, u, [state EXCEPT !.dailyCustomFields[i].value = value])
            ELSE [SetState(w1, u,
                    [state EXCEPT !.dailyCustomFields =
                       Append(@, [id |-> w1.nextId, key |-> key, value |-> value])])
                    EXCEPT !.nextId = @ + 1]

DailyFieldSet(u) ==
    /\ nextId <= MaxId
    /\ \E key \in Keys, value \in Values :
         Commit(DailyFieldSetHandler(World, u, key, value, now))
    /\ UNCHANGED now

\* DELETE /api/daily-custom-fields/:id
DailyFieldDeleteHandler(w, u, id, t) ==
    LET w1 == GetUserState(w, u, t)
        state == State(w1, u)
    IN SetState(w1, u, [state EXCEPT !.dailyCustomFields = WithoutId(@, id)])

DailyFieldDelete(u) ==
    /\ \E id \in 1..MaxId : Commit(DailyFieldDeleteHandler(World, u, id, now))
    /\ UNCHANGED now

\* POST /api/daily-tasks (an empty text is answered 400)
TaskAddHandler(w, u, text, t) ==
    IF text = "" THEN w
    ELSE LET w1 == GetUserState(w, u, t)
             state == State(w1, u)
         IN [SetState(w1, u,
               [state EXCEPT !.dailyTasks =
                  Append(@, [id |-> w1.nextId, text |-> text, completed |-> FALSE])])
               EXCEPT !.nextId = @ + 1]

TaskAdd(u) ==
    /\ nextId <= MaxId
    /\ \E text \in Texts : Commit(TaskAddHandler(World, u, text, now))
    /\ UNCHANGED now

\* PUT /api/daily-tasks/:id/toggle
TaskToggleHandler(w, u, id, t) ==
    LET w1 == GetUserState(w, u, t)
        state == State(w1, u)
        i == IndexOfId(state.dailyTasks, id)
    IN IF i # 0
       THEN SetState(w1, u, [state EXCEPT !.dailyTasks[i].completed = ~@])
       ELSE w1

TaskToggle(u) ==
    /\ \E id \in 1..MaxId : Commit(TaskToggleHandler(World, u, id, now))
    /\ UNCHANGED now

\* DELETE /api/daily-tasks/:id
TaskDeleteHandler(w, u, id, t) ==
    LET w1 == GetUserState(w, u, t)
        state == State(w1, u)
    IN SetState(w1, u, [state EXCEPT !.dailyTasks = WithoutId(@, id)])

TaskDelete(u) ==
    /\ \E id \in 1..MaxId : Commit(TaskDeleteHandler(World, u, id, now))
    /\ UNCHANGED now

\* a create that does not look for the key among the templates
TemplateCreateUnchecked(w, u, key, t) ==
    IF key = "" THEN w
    ELSE LET w1 == GetUserState(
                     [w EXCEPT !.customFieldTemplates[u] =
                                   Append(@, [id |-> w.nextId, key |-> key]),
                               !.nextId = @ + 1], u, t)
             state == State(w1, u)
         IN [SetState(w1, u,
               [state EXCEPT !.customFields =
                  Append(@, [id |-> w1.nextId, key |-> key, value |-> ""])])
               EXCEPT !.nextId = @ + 1]

\* POST /api/custom-field-templates/create: the template and the field of
\* the current day take two consecutive ids
TemplateCreateHandler(w, u, key, t) ==
    IF key = "" THEN w
    ELSE IF IndexOfKey(w.customFieldTemplates[u], key) # 0 THEN w
    ELSE LET w1 == GetUserState(
                     [w EXCEPT !.customFieldTemplates[u] =
                                   Append(@, [id |-> w.nextId, key |-> key]),
                               !.nextId = @ + 1], u, t)
             state == State(w1, u)
         IN [SetState(w1, u,
               [state EXCEPT !.customFields =
                  Append(@, [id |-> w1.nextId, key |-> key, value |-> ""])])
               EXCEPT !.nextId = @ + 1]

\* the answer of the request: its status and its error message
TemplateCreateResponse(w, u, key, t) ==
    IF key = "" THEN [status |-> 400, error |-> "Field key is required"]
    ELSE IF IndexOfKey(w.customFieldTemplates[u], key) # 0
    THEN [status |-> 400, error |-> "Template already exists"]
    ELSE [status |-> 200, error |-> ""]

TemplateCreate(u) ==
    /\ nextId <= MaxId
    /\ \E key \in Keys : Commit(TemplateCreateHandler(World, u, key, now))
    /\ UNCHANGED now

\* a delete that removes the field by the id of the template
TemplateDeleteFieldById(w, u, id, t) ==
    LET i == IndexOfId(w.customFieldTemplates[u], id)
    IN IF i # 0
       THEN LET w1 == GetUserState(
                        [w EXCEPT !.customFieldTemplates[u] = WithoutId(@, id)], u, t)
                state == State(w1, u)
            IN SetState(w1, u, [state EXCEPT !.customFields = WithoutId(@, id)])
       ELSE GetUserState(w, u, t)

\* DELETE /api/custom-field-templates/:id
TemplateDeleteHandler(w, u, id, t) ==
    LET i == IndexOfId(w.customFieldTemplates[u], id)
    IN IF i # 0
       THEN LET template == w.customFieldTemplates[u][i]
                w1 == GetUserState(
                        [w EXCEPT !.customFieldTemplates[u] = WithoutId(@, id)], u, t)
                state == State(w1, u)
            IN SetState(w1, u,
                 [state EXCEPT !.customFields = WithoutKey(@, template.key)])
       ELSE GetUserState(w, u, t)

TemplateDelete(u) ==
    /\ \E id \in 1..MaxId : Commit(TemplateDeleteHandler(World, u, id, now))
    /\ UNCHANGED now

\* PUT /api/custom-fields/:key
CustomFieldSetHandler(w, u, key, value, t) ==
    LET w1 == GetUserState(w, u, t)
        state == State(w1, u)
        i == IndexOfKey(state.customFields, key)
    IN IF i # 0
       THEN SetState(w1, u, [state EXCEPT !.customFields[i].value = value])
       ELSE w1

CustomFieldSet(u) ==
    /\ \E key \in Keys, value \in Values :
         Commit(CustomFieldSetHandler(World, u, key, value, now))
    /\ UNCHANGED now

----------------------------------------------------------------------------
(* The server: any handler, for any user, at any time *)

StoreRequest(u) ==
    \/ GetState(u)
    \/ Download(u)
    \/ SaveSnapshot(u)
    \/ DeleteSnapshot(u)

DailyRequest(u) ==
    \/ AddEntry(u)
    \/ DailyFieldSet(u)
    \/ DailyFieldDelete(u)
    \/ TaskAdd(u)
    \/ TaskToggle(u)
    \/ TaskDelete(u)

TrackerRequest(u) ==
    \/ CreateTimeSince(u)
    \/ DeleteTimeSince(u)
    \/ CreateDuration(u)
    \/ DeleteDuration(u)
    \/ ManualTime(u)
    \/ TimerStart(u)
    \/ TimerStop(u)
    \/ TimerReset(u)

CounterRequest(u) ==
    \/ CounterCreate(u)
    \/ CounterIncrement(u)
    \/ CounterDecrement(u)
    \/ CounterSet(u)
    \/ CounterDelete(u)

TemplateRequest(u) ==
    \/ TemplateCreate(u)
    \/ TemplateDelete(u)
    \/ CustomFieldSet(u)

Next ==
    \/ Tick
    \/ NewDay
    \/ \E u \in ActiveUsers :
         \/ StoreRequest(u)
         \/ UpdateDaily(u)
         \/ PutRetentionSettings(u)
         \/ DailyRequest(u)
         \/ TrackerRequest(u)
         \/ CounterRequest(u)
         \/ TemplateRequest(u)

Spec == Init /\ [][Next]_vars

(* The snapshot store with its retention settings, and the entries of the  *)
(* day as its content.                                                      *)
NextStore ==
    \/ NewDay
    \/ \E u \in ActiveUsers :
         \/ StoreRequest(u)
         \/ PutRetentionSettings(u)
         \/ AddEntry(u)

SpecStore == Init /\ [][NextStore]_vars

(* Every handler that changes what a day holds, under the retention        *)
(* settings of a new user.                                                 *)
NextContent ==
    \/ NewDay
    \/ \E u \in ActiveUsers :
         \/ StoreRequest(u)
         \/ DailyRequest(u)
         \/ TrackerRequest(u)
         \/ CounterRequest(u)
         \/ TemplateRequest(u)

SpecContent == Init /\ [][NextContent]_vars

(* The counters over the days *)
NextCounters ==
    \/ NewDay
    \/ \E u \in ActiveUsers :
         \/ StoreRequest(u)
         \/ CounterRequest(u)

SpecCounters == Init /\ [][NextCounters]_vars

(* The templates and their fields over the days *)
NextTemplates ==
    \/ NewDay
    \/ \E u \in ActiveUsers :
         \/ StoreRequest(u)
         \/ TemplateRequest(u)

SpecTemplates == Init /\ [][NextTemplates]_vars

(* The retention pass as a function of the archive and the policy: user 1  *)
(* has opened the journal on a set of days and today, and then puts a      *)
(* policy with maxDays = 0.                                                *)
InitRetention ==
    /\ \E days \in SUBSET (1..MaxArchived) :
         historicalData = [u \in Users |->
            IF u = 1 THEN [d \in days |-> DeepClone(NewState(d))]
            ELSE [d \in {} |-> None]]
    /\ userStates = [u \in Users |-> IF u = 1 THEN Some(NewState(MaxArchived + 1)) ELSE None]
    /\ customFieldTemplates = [u \in Users |-> << >>]
    /\ snapshotSettings = [u \in Users |-> None]
    /\ persistentTrackers = [u \in Users |-> EmptyTrackers]
    /\ nextId = 1
    /\ now = (MaxArchived + 1) * MsPerDay
    /\ db = EmptyDb
    /\ single = EmptySingle
    /\ runs = NoRuns

NextRetention == PutRetentionSettingsFrom(1, {Some(0)}, PolicyCounts)

SpecRetention == InitRetention /\ [][NextRetention]_vars

(* The same archives under policies with an age limit and a count limit *)
NextPolicy == PutRetentionSettingsFrom(1, PolicyDays, PolicyCounts)

SpecPolicy == InitRetention /\ [][NextPolicy]_vars

(* Range exports over the same archives *)
NextExport ==
    \/ DateRange(1)
    \/ DownloadRange(1)
    \/ DeleteSnapshot(1)

SpecExport == InitRetention /\ [][NextExport]_vars

----------------------------------------------------------------------------
(* The database-backed server (src/server/index.js over the data access   *)
(* layer). Its handlers are functions from database to database; what a    *)
(* request answers is DbGetUserState of the database it leaves.            *)

\* what SQLite keeps of a number bound to a TEXT column, and what
\* JavaScript arithmetic makes of that text
SqlText(n) == << "text", n >>
ToNumber(x) == x[2]

\* getDailyState(userId, date): the row, or undefined
GetDailyState(d, userId, date) ==
    LET rows == {r \in d.daily_state : r.user_id = userId /\ r.date = date}
    IN IF rows = {} THEN None ELSE Some(CHOOSE r \in rows : TRUE)

\* setDailyState: INSERT ... ON CONFLICT(user_id, date) DO UPDATE SET both columns
SetDailyState(d, userId, date, previousBedtime, wakeTime) ==
    [d EXCEPT !.daily_state =
        {r \in @ : ~(r.user_id = userId /\ r.date = date)} \cup
        {[user_id |-> userId, date |-> date,
          previous_bedtime |-> previousBedtime, wake_time |-> wakeTime]}]

\* getTimeSinceTrackers(userId): the user's rows in rowid order
GetTimeSinceTrackers(d, userId) ==
    LET rows == {r \in d.time_since_trackers : r.user_id = userId}
        ids == SortAsc({r.id : r \in rows})
    IN [i \in 1..Len(ids) |->
          LET row == CHOOSE r \in rows : r.id = ids[i]
          IN [id |-> row.id, name |-> row.name, date |-> row.date]]

\* getDurationTrackers(userId): the user's rows with the camel-case aliases
GetDurationTrackers(d, userId) ==
    LET rows == {r \in d.duration_trackers : r.user_id = userId}
        ids == SortAsc({r.id : r \in rows})
    IN [i \in 1..Len(ids) |->
          LET row == CHOOSE r \in rows : r.id = ids[i]
          IN [id |-> row.id, name |-> row.name, type |-> row.type,
              is_running |-> row.is_running, start_time |-> row.start_time,
              elapsed_ms |-> row.elapsed_ms, value |-> row.value,
              isRunning |-> row.is_running # 0,
              startTime |-> row.start_time,
              elapsedMs |-> row.elapsed_ms]]

\* getCustomCounterValue(counterId, date): the stored value, or 0
GetCustomCounterValue(d, counterId, date) ==
    LET rows == {r \in d.custom_counter_values : r.counter_id = counterId /\ r.date = date}
    IN IF rows = {} THEN 0 ELSE (CHOOSE r \in rows : TRUE).value

\* getCustomCounters(userId) with the value of the date, as getUserState maps them
GetCustomCounters(d, userId, date) ==
    LET rows == {r \in d.custom_counters : r.user_id = userId}
        ids == SortAsc({r.id : r \in rows})
    IN [i \in 1..Len(ids) |->
          LET row == CHOOSE r \in rows : r.id = ids[i]
          IN [id |-> row.id, name |-> row.name,
              value |-> GetCustomCounterValue(d, row.id, date)]]

\* getActivityEntries(userId, date) as getUserState maps them: the time of
\* day of the stored timestamp, and no image
GetActivityEntries(d, userId, date) ==
    LET rows == {r \in d.activity_entries : r.user_id = userId /\ r.date = date}
        ids == SortAsc({r.id : r \in rows})
    IN [i \in 1..Len(ids) |->
          LET row == CHOOSE r \in rows : r.id = ids[i]
          IN [id |-> row.id, timestamp |-> row.timestamp % (MsPerDay \div 1000),
              text |-> row.text, image |-> None]]

\* getCustomFieldTemplates(userId): the rows of the user, in rowid order
GetCustomFieldTemplates(d, userId) ==
    LET rows == {r \in d.custom_field_templates : r.user_id = userId}
        ids == SortAsc({r.id : r \in rows})
    IN [i \in 1..Len(ids) |->
          LET row == CHOOSE r \in rows : r.id = ids[i]
          IN [id |-> row.id, key |-> row.key]]

\* getDailyCustomFields(userId, date): UNIQUE(user_id, date, key), so a set
\* of rows with distinct keys; the model leaves out the rowid, which the
\* requests on template fields never read
GetDailyCustomFields(d, userId, date) ==
    {[key |-> r.key, value |-> r.value, isTemplate |-> r.is_template = 1] :
        r \in {x \in d.daily_custom_fields : x.user_id = userId /\ x.date = date}}

\* the merge of getUserState: one field per template, with the value of the
\* row of the date marked as a template field, or ''
MergeTemplates(templates, dailyFieldsFromDB) ==
    LET templateFields == {f \in dailyFieldsFromDB : f.isTemplate}
    IN [i \in 1..Len(templates) |->
          LET valueField == {f \in templateFields : f.key = templates[i].key}
          IN [id |-> templates[i].id, key |-> templates[i].key,
              value |-> IF valueField # {}
                        THEN (CHOOSE f \in valueField : TRUE).value ELSE ""]]

\* getUserState(userId) of the database-backed server: assembled from the
\* rows of the current date on every call
DbGetUserState(d, userId, t) ==
    LET dailyState == GetDailyState(d, userId, DateOf(t))
    IN [date |-> DateOf(t),
        previousBedtime |-> IF dailyState = None THEN "" ELSE dailyState[1].previous_bedtime,
        wakeTime |-> IF dailyState = None THEN "" ELSE dailyState[1].wake_time,
        customFields |-> MergeTemplates(GetCustomFieldTemplates(d, userId),
                                        GetDailyCustomFields(d, userId, DateOf(t))),
        dailyCustomFields |->
            {[key |-> f.key, value |-> f.value] :
                f \in {x \in GetDailyCustomFields(d, userId, DateOf(t)) : ~x.isTemplate}},
        customCounters |-> GetCustomCounters(d, userId, DateOf(t)),
        entries |-> GetActivityEntries(d, userId, DateOf(t)),
        timeSinceTrackers |-> GetTimeSinceTrackers(d, userId),
        durationTrackers |-> GetDurationTrackers(d, userId)]

\* what leaves the database: the request that wrote it changes nothing else
DbCommit(d) ==
    /\ db' = d
    /\ UNCHANGED <<userStates, customFieldTemplates, historicalData,
                   snapshotSettings, persistentTrackers, nextId, single, runs>>

\* POST /api/daily: a field the body leaves out is written as ''
DbUpdateDailyHandler(d, userId, data, t) ==
    LET previousBedtime == IF data.previousBedtime # None THEN data.previousBedtime[1] ELSE ""
        wakeTime == IF data.wakeTime # None THEN data.wakeTime[1] ELSE ""
    IN SetDailyState(d, userId, DateOf(t), previousBedtime, wakeTime)

DbUpdateDaily(u) ==
    /\ \E previousBedtime \in Bedtimes, wakeTime \in WakeTimes :
           DbCommit(DbUpdateDailyHandler(db, u, [previousBedtime |-> previousBedtime,
                                                 wakeTime |-> wakeTime], now))
    /\ UNCHANGED now

\* createActivityEntry(userId, date, text): timestamp defaults to
\* CURRENT_TIMESTAMP, the time to the second
CreateActivityEntry(d, userId, date, text, t) ==
    LET id == d.seq.activity_entries + 1
    IN [d EXCEPT !.activity_entries =
                    @ \cup {[id |-> id, user_id |-> userId, date |-> date,
                             text |-> text, timestamp |-> t \div 1000]},
                 !.seq.activity_entries = id]

\* POST /api/entry: the image is checked for its size and then left out
DbAddEntryHandler(d, userId, text, imageLength, t) ==
    IF ImageTooLarge(imageLength) THEN d
    ELSE CreateActivityEntry(d, userId, DateOf(t), text, t)

DbAddEntry(u) ==
    /\ db.seq.activity_entries < MaxRowId
    /\ \E text \in Texts, imageLength \in ImageLengths :
         DbCommit(DbAddEntryHandler(db, u, text, imageLength, now))
    /\ UNCHANGED now

\* GET /api/download and /api/download-pdf: render getUserState, write nothing
DbDownloadHandler(d, userId, t) == d

\* POST /api/exports/save-snapshot: answers success, writes nothing
DbSaveSnapshotHandler(d, userId, t) == d

\* GET /api/exports/available-dates: const dates = []
DbAvailableDates(d, userId) == << >>

\* createTimeSinceTracker(userId, name, date)
CreateTimeSinceTracker(d, userId, name, date) ==
    LET id == d.seq.time_since_trackers + 1
    IN [d EXCEPT !.time_since_trackers =
                    @ \cup {[id |-> id, user_id |-> userId, name |-> name, date |-> date]},
                 !.seq.time_since_trackers = id]

\* deleteTimeSinceTracker(id): DELETE ... WHERE id = ?
DeleteTimeSinceTracker(d, id) ==
    [d EXCEPT !.time_since_trackers = {r \in @ : r.id # id}]

\* createDurationTracker(userId, name): the other columns take their defaults
CreateDurationTracker(d, userId, name) ==
    LET id == d.seq.duration_trackers + 1
    IN [d EXCEPT !.duration_trackers =
                    @ \cup {[id |-> id, user_id |-> userId, name |-> name,
                             type |-> "timer", is_running |-> 0, start_time |-> None,
                             elapsed_ms |-> 0, value |-> 0]},
                 !.seq.duration_trackers = id]

\* updateDurationTracker(id, updates): sets the columns whose property is
\* not undefined, WHERE id = ?; updates is a record of the properties present
UpdateDurationTracker(d, id, updates) ==
    IF DOMAIN updates = {} THEN d
    ELSE [d EXCEPT !.duration_trackers =
            {IF r.id # id THEN r
             ELSE [r EXCEPT
                    !.is_running = IF "isRunning" \in DOMAIN updates
                                   THEN (IF updates.isRunning THEN 1 ELSE 0) ELSE @,
                    !.start_time = IF "startTime" \in DOMAIN updates
                                   THEN (IF updates.startTime = None THEN None
                                         ELSE SqlText(updates.startTime[1])) ELSE @,
                    !.elapsed_ms = IF "elapsedMs" \in DOMAIN updates
                                   THEN updates.elapsedMs ELSE @,
                    !.value = IF "value" \in DOMAIN updates THEN updates.value ELSE @]
             : r \in @}]

\* deleteDurationTracker(id): DELETE ... WHERE id = ?
DeleteDurationTracker(d, id) ==
    [d EXCEPT !.duration_trackers = {r \in @ : r.id # id}]

\* POST /api/trackers/time-since
DbCreateTimeSinceHandler(d, userId, name, date, t) ==
    CreateTimeSinceTracker(d, userId, name, date)

DbCreateTimeSince(u) ==
    /\ db.seq.time_since_trackers < MaxRowId
    /\ \E name \in TrackerNames, date \in RefDates :
         DbCommit(DbCreateTimeSinceHandler(db, u, name, date, now))
    /\ UNCHANGED now

\* DELETE /api/trackers/time-since/:id
DbDeleteTimeSinceHandler(d, userId, id, t) == DeleteTimeSinceTracker(d, id)

DbDeleteTimeSince(u) ==
    /\ \E id \in 1..MaxRowId : DbCommit(DbDeleteTimeSinceHandler(db, u, id, now))
    /\ UNCHANGED now

\* POST /api/trackers/duration
DbCreateDurationHandler(d, userId, name, t) == CreateDurationTracker(d, userId, name)

DbCreateDuration(u) ==
    /\ db.seq.duration_trackers < MaxRowId
    /\ \E name \in TrackerNames : DbCommit(DbCreateDurationHandler(db, u, name, now))
    /\ UNCHANGED now

\* DELETE /api/trackers/duration/:id
DbDeleteDurationHandler(d, userId, id, t) == DeleteDurationTracker(d, id)

DbDeleteDuration(u) ==
    /\ \E id \in 1..MaxRowId : DbCommit(DbDeleteDurationHandler(db, u, id, now))
    /\ UNCHANGED now

\* POST /api/trackers/manual-time
DbManualTimeHandler(d, userId, trackerId, startTime, elapsedMs, t) ==
    UpdateDurationTracker(d, trackerId, [startTime |-> Some(startTime),
                                         elapsedMs |-> elapsedMs,
                                         isRunning |-> FALSE])

\* the status it answers with: res.json(state), whatever the id
DbManualTimeStatus(d, userId, trackerId, t) == 200

DbManualTime(u) ==
    /\ \E trackerId \in 1..MaxRowId, startTime \in ManualStarts, elapsedMs \in ManualElapsed :
           DbCommit(DbManualTimeHandler(db, u, trackerId, startTime, elapsedMs, now))
    /\ UNCHANGED now

\* POST /api/trackers/timer/start/:id
DbTimerStartHandler(d, userId, id, t) ==
    UpdateDurationTracker(d, id, [isRunning |-> TRUE, startTime |-> Some(t)])

DbTimerStart(u) ==
    /\ \E id \in 1..MaxRowId : DbCommit(DbTimerStartHandler(db, u, id, now))
    /\ UNCHANGED now

\* POST /api/trackers/timer/stop/:id: the tracker is looked up among the
\* requesting user's own
DbTimerStopHandler(d, userId, id, t) ==
    LET trackers == GetDurationTrackers(d, userId)
        i == IndexOfId(trackers, id)
    IN IF i # 0 /\ trackers[i].type = "timer" /\ trackers[i].isRunning
       THEN LET elapsed == t - ToNumber(trackers[i].startTime)
                newElapsedMs == trackers[i].elapsedMs + elapsed
                newValue == newElapsedMs \div 1000
            IN UpdateDurationTracker(d, id, [elapsedMs |-> newElapsedMs,
                                             value |-> newValue,
                                             isRunning |-> FALSE,
                                             startTime |-> None])
       ELSE d

DbTimerStop(u) ==
    /\ \E id \in 1..MaxRowId : DbCommit(DbTimerStopHandler(db, u, id, now))
    /\ UNCHANGED now

\* POST /api/trackers/timer/reset/:id
DbTimerResetHandler(d, userId, id, t) ==
    UpdateDurationTracker(d, id, [value |-> 0, isRunning |-> FALSE,
                                  startTime |-> None, elapsedMs |-> 0])

DbTimerReset(u) ==
    /\ \E id \in 1..MaxRowId : DbCommit(DbTimerResetHandler(db, u, id, now))
    /\ UNCHANGED now

\* createCustomCounter(userId, name): UNIQUE(user_id, name) makes a second
\* insert of the name throw, and the request fails with nothing written
CreateCustomCounter(d, userId, name) ==
    IF \E r \in d.custom_counters : r.user_id = userId /\ r.name = name THEN d
    ELSE LET id == d.seq.custom_counters + 1
         IN [d EXCEPT !.custom_counters =
                         @ \cup {[id |-> id, user_id |-> userId, name |-> name]},
                      !.seq.custom_counters = id]

\* setCustomCounterValue: INSERT ... ON CONFLICT(counter_id, date) DO UPDATE SET value
SetCustomCounterValue(d, counterId, userId, date, value) ==
    LET rows == {r \in d.custom_counter_values : r.counter_id = counterId /\ r.date = date}
    IN [d EXCEPT !.custom_counter_values =
          IF rows = {}
          THEN @ \cup {[counter_id |-> counterId, user_id |-> userId,
                        date |-> date, value |-> value]}
          ELSE {IF r \in rows THEN [r EXCEPT !.value = value] ELSE r : r \in @}]

\* deleteCustomCounter(id): DELETE ... WHERE id = ?; foreign keys are not
\* switched on, so the values of the counter stay
DeleteCustomCounter(d, id) ==
    [d EXCEPT !.custom_counters = {r \in @ : r.id # id}]

\* POST /api/custom-counters/create (an empty name is answered 400)
DbCounterCreateHandler(d, userId, name, t) ==
    IF name = "" THEN d ELSE CreateCustomCounter(d, userId, name)

DbCounterCreate(u) ==
    /\ db.seq.custom_counters < MaxRowId
    /\ \E name \in CounterNames : DbCommit(DbCounterCreateHandler(db, u, name, now))
    /\ UNCHANGED now

\* POST /api/custom-counters/:id/increment
DbCounterIncrementHandler(d, userId, id, t) ==
    LET currentValue == GetCustomCounterValue(d, id, DateOf(t))
    IN SetCustomCounterValue(d, id, userId, DateOf(t), currentValue + Unit)

DbCounterIncrement(u) ==
    /\ \E id \in 1..MaxRowId :
         /\ GetCustomCounterValue(db, id, CurrentDate) < MaxCounter * Unit
         /\ DbCommit(DbCounterIncrementHandler(db, u, id, now))
    /\ UNCHANGED now

\* POST /api/custom-counters/:id/decrement
DbCounterDecrementHandler(d, userId, id, t) ==
    LET currentValue == GetCustomCounterValue(d, id, DateOf(t))
    IN IF currentValue > 0
       THEN SetCustomCounterValue(d, id, userId, DateOf(t), currentValue - Unit)
       ELSE d

DbCounterDecrement(u) ==
    /\ \E id \in 1..MaxRowId : DbCommit(DbCounterDecrementHandler(db, u, id, now))
    /\ UNCHANGED now

\* PUT /api/custom-counters/:id/set: typeof value === 'number' && value >= 0
DbCounterSetHandler(d, userId, id, value, t) ==
    IF value.type = "number" /\ value.num >= 0
    THEN SetCustomCounterValue(d, id, userId, DateOf(t), value.num)
    ELSE d

DbCounterSet(u) ==
    /\ \E id \in 1..MaxRowId, value \in CounterInputs :
         DbCommit(DbCounterSetHandler(db, u, id, value, now))
    /\ UNCHANGED now

\* DELETE /api/custom-counters/:id
DbCounterDeleteHandler(d, userId, id, t) == DeleteCustomCounter(d, id)

DbCounterDelete(u) ==
    /\ \E id \in 1..MaxRowId : DbCommit(DbCounterDeleteHandler(db, u, id, now))
    /\ UNCHANGED now

DbCounterRequest(u) ==
    \/ DbCounterCreate(u)
    \/ DbCounterIncrement(u)
    \/ DbCounterDecrement(u)
    \/ DbCounterSet(u)
    \/ DbCounterDelete(u)

\* createCustomFieldTemplate(userId, key)
CreateCustomFieldTemplate(d, userId, key) ==
    LET id == d.seq.custom_field_templates + 1
    IN [d EXCEPT !.custom_field_templates =
                    @ \cup {[id |-> id, user_id |-> userId, key |-> key]},
                 !.seq.custom_field_templates = id]

\* deleteCustomFieldTemplate(userId, key)
DeleteCustomFieldTemplate(d, userId, key) ==
    [d EXCEPT !.custom_field_templates =
        {r \in @ : ~(r.user_id = userId /\ r.key = key)}]

\* setDailyCustomField: INSERT ... ON CONFLICT(user_id, date, key) DO UPDATE SET value
SetDailyCustomField(d, userId, date, key, value, isTemplate) ==
    LET rows == {r \in d.daily_custom_fields :
                    r.user_id = userId /\ r.date = date /\ r.key = key}
    IN [d EXCEPT !.daily_custom_fields =
          IF rows = {}
          THEN @ \cup {[user_id |-> userId, date |-> date, key |-> key,
                        value |-> value,
                        is_template |-> IF isTemplate THEN 1 ELSE 0]}
          ELSE {IF r \in rows THEN [r EXCEPT !.value = value] ELSE r : r \in @}]

\* deleteDailyCustomField(userId, date, key)
DeleteDailyCustomField(d, userId, date, key) ==
    [d EXCEPT !.daily_custom_fields =
        {r \in @ : ~(r.user_id = userId /\ r.date = date /\ r.key = key)}]

\* POST /api/custom-field-templates/create of the database-backed server
DbTemplateCreateHandler(d, userId, key, t) ==
    IF key = "" THEN d
    ELSE IF IndexOfKey(GetCustomFieldTemplates(d, userId), key) # 0 THEN d
    ELSE SetDailyCustomField(CreateCustomFieldTemplate(d, userId, key),
                             userId, DateOf(t), key, "", TRUE)

\* the answer of the request: its status and its error message
DbTemplateCreateResponse(d, userId, key, t) ==
    IF key = "" THEN [status |-> 400, error |-> "Field key is required"]
    ELSE IF IndexOfKey(GetCustomFieldTemplates(d, userId), key) # 0
    THEN [status |-> 400, error |-> "Template already exists"]
    ELSE [status |-> 200, error |-> ""]

\* DELETE /api/custom-field-templates/:id of the database-backed server:
\* the key is looked up in the merged fields of the current date
DbTemplateDeleteHandler(d, userId, id, t) ==
    LET state == DbGetUserState(d, userId, t)
        i == IndexOfId(state.customFields, id)
    IN IF i # 0
       THEN LET key == state.customFields[i].key
            IN DeleteDailyCustomField(DeleteCustomFieldTemplate(d, userId, key),
                                      userId, DateOf(t), key)
       ELSE d

\* PUT /api/custom-fields/:key of the database-backed server
DbCustomFieldSetHandler(d, userId, key, value, t) ==
    SetDailyCustomField(d, userId, DateOf(t), key, value, TRUE)

\* POST /api/daily-custom-fields of the database-backed server (an empty
\* key is answered 400)
DbDailyFieldSetHandler(d, userId, key, value, t) ==
    IF key = "" THEN d
    ELSE SetDailyCustomField(d, userId, DateOf(t), key, value, FALSE)

DbDailyFieldSet(u) ==
    /\ \E key \in FieldKeys, value \in Values :
         DbCommit(DbDailyFieldSetHandler(db, u, key, value, now))
    /\ UNCHANGED now

\* getSnapshotSettings(userId): the row of the user, or the defaults
GetSnapshotSettings(d, userId) ==
    LET rows == {r \in d.snapshot_settings : r.user_id = userId}
    IN IF rows # {}
       THEN LET row == CHOOSE r \in rows : TRUE
            IN [max_days |-> row.max_days, max_count |-> row.max_count]
       ELSE [max_days |-> DefaultMaxDays, max_count |-> DefaultMaxCount]

\* setSnapshotSettings: INSERT ... ON CONFLICT(user_id) DO UPDATE SET both columns
SetSnapshotSettings(d, userId, maxDays, maxCount) ==
    [d EXCEPT !.snapshot_settings =
        {r \in @ : r.user_id # userId}
        \cup {[user_id |-> userId, max_days |-> maxDays, max_count |-> maxCount]}]

\* PUT /api/exports/retention-settings of the database-backed server: a
\* setting the body leaves out is written as its default
DbPutRetentionSettingsHandler(d, userId, maxDays, maxCount, t) ==
    LET parsedMaxDays == IF maxDays # None THEN ParseInt(maxDays[1]) ELSE DefaultMaxDays
        parsedMaxCount == IF maxCount # None THEN ParseInt(maxCount[1]) ELSE DefaultMaxCount
    IN SetSnapshotSettings(d, userId, parsedMaxDays, parsedMaxCount)

DbPutRetentionSettings(u) ==
    /\ \E maxDays \in RetentionInputs, maxCount \in RetentionInputs :
         DbCommit(DbPutRetentionSettingsHandler(db, u, maxDays, maxCount, now))
    /\ UNCHANGED now

(* The retention settings of one user on both servers over the days *)
NextSettings ==
    \/ NewDay
    \/ GetState(1)
    \/ PutRetentionSettings(1)
    \/ DbPutRetentionSettings(1)

SpecSettings == Init /\ [][NextSettings]_vars

(* The template fields of one user on both servers over the days, with    *)
(* two keys, so that a second template and a second field can exist       *)
FieldCreate(u) ==
    /\ nextId <= MaxFieldId
    /\ \E key \in FieldKeys : Commit(TemplateCreateHandler(World, u, key, now))
    /\ UNCHANGED now

FieldDelete(u) ==
    /\ \E id \in 1..MaxFieldId : Commit(TemplateDeleteHandler(World, u, id, now))
    /\ UNCHANGED now

FieldSet(u) ==
    /\ \E key \in Keys, value \in Values :
         Commit(CustomFieldSetHandler(World, u, key, value, now))
    /\ UNCHANGED now

DbTemplateCreate(u) ==
    /\ db.seq.custom_field_templates < MaxTemplateRows
    /\ \E key \in FieldKeys : DbCommit(DbTemplateCreateHandler(db, u, key, now))
    /\ UNCHANGED now

DbTemplateDelete(u) ==
    /\ \E id \in 1..MaxTemplateRows : DbCommit(DbTemplateDeleteHandler(db, u, id, now))
    /\ UNCHANGED now

DbCustomFieldSet(u) ==
    /\ \E key \in Keys, value \in Values :
         DbCommit(DbCustomFieldSetHandler(db, u, key, value, now))
    /\ UNCHANGED now

NextFields ==
    \/ NewDay
    \/ GetState(1)
    \/ FieldCreate(1)
    \/ FieldDelete(1)
    \/ FieldSet(1)
    \/ DbTemplateCreate(1)
    \/ DbTemplateDelete(1)
    \/ DbCustomFieldSet(1)

SpecFields == Init /\ [][NextFields]_vars

(* The counters of one user on both servers over the days *)
NextCounting ==
    \/ NewDay
    \/ GetState(1)
    \/ CounterRequest(1)
    \/ DbCounterRequest(1)

SpecCounting == Init /\ [][NextCounting]_vars

(* The tracker requests of two users of the database-backed server *)
DbTrackerRequest(u) ==
    \/ DbCreateTimeSince(u)
    \/ DbDeleteTimeSince(u)
    \/ DbCreateDuration(u)
    \/ DbDeleteDuration(u)
    \/ DbManualTime(u)
    \/ DbTimerStart(u)
    \/ DbTimerStop(u)
    \/ DbTimerReset(u)


(* A timer of user 1 that has been stopped at some number of seconds, and *)
(* the requests on it: the durations that the exports format               *)
InitDurations ==
    /\ \E value \in 0..MaxSeconds :
         LET tracker == [id |-> 1, name |-> "run", type |-> "timer", value |-> value,
                         isRunning |-> FALSE, startTime |-> None,
                         elapsedMs |-> value * 1000]
         IN /\ userStates = [u \in Users |->
                  IF u = 1
                  THEN Some([NewState(0) EXCEPT !.durationTrackers = << tracker >>])
                  ELSE None]
            /\ persistentTrackers = [u \in Users |->
                  IF u = 1 THEN [EmptyTrackers EXCEPT !.durationTrackers = << tracker >>]
                  ELSE EmptyTrackers]
    /\ customFieldTemplates = [u \in Users |-> << >>]
    /\ historicalData = [u \in Users |-> [d \in {} |-> None]]
    /\ snapshotSettings = [u \in Users |-> None]
    /\ nextId = 2
    /\ now = 0
    /\ db = EmptyDb
    /\ single = EmptySingle
    /\ runs = NoRuns

NextDurations ==
    \/ Tick
    \/ TimerStart(1)
    \/ TimerStop(1)
    \/ TimerReset(1)

SpecDurations == InitDurations /\ [][NextDurations]_vars

(* A time-since tracker of user 1 whose reference date lies around a      *)
(* landmark of the breakdown (a unit, each number of months, a year) before *)
(* the clock, or just after it                                             *)
Landmarks ==
    {0, 60, 24 * 60, 7 * 24 * 60, MinutesPerYear}
    \cup {MonthMinutes(m) : m \in 1..12}
    \cup {MonthMinutes(m) + 1 : m \in 1..12}

ElapsedMinutes ==
    {a + b + j : a \in {0, MinutesPerYear}, b \in Landmarks, j \in (0 - MaxSkew)..MaxSkew}

InitTimeSince ==
    /\ \E e \in ElapsedMinutes, ms \in {0, 1000} :
         LET tracker == [id |-> 1, name |-> "run",
                         date |-> [min |-> 0 - e, ms |-> ms]]
         IN /\ userStates = [u \in Users |->
                  IF u = 1
                  THEN Some([NewState(0) EXCEPT !.timeSinceTrackers = << tracker >>])
                  ELSE None]
            /\ persistentTrackers = [u \in Users |->
                  IF u = 1 THEN [EmptyTrackers EXCEPT !.timeSinceTrackers = << tracker >>]
                  ELSE EmptyTrackers]
    /\ customFieldTemplates = [u \in Users |-> << >>]
    /\ historicalData = [u \in Users |-> [d \in {} |-> None]]
    /\ snapshotSettings = [u \in Users |-> None]
    /\ nextId = 2
    /\ now = 0
    /\ db = EmptyDb
    /\ single = EmptySingle
    /\ runs = NoRuns

NextTimeSince ==
    \/ Tick
    \/ GetState(1)
    \/ DeleteTimeSince(1)

SpecTimeSince == InitTimeSince /\ [][NextTimeSince]_vars

(* A day of user 1 with a counter and a task whose name and text are any  *)
(* string of up to MaxLen characters, double quotes among them             *)
RECURSIVE StringsUpTo(_)
StringsUpTo(n) ==
    IF n = 0 THEN {<< >>}
    ELSE LET shorter == StringsUpTo(n - 1)
         IN shorter \cup {Append(str, c) : str \in shorter, c \in {"a", "\""}}

InitQuoting ==
    /\ \E name \in StringsUpTo(MaxLen) \ {<< >>}, text \in StringsUpTo(MaxLen) \ {<< >>} :
         LET counter == [id |-> 2, name |-> name, value |-> 0]
             task == [id |-> 1, text |-> text, completed |-> FALSE]
         IN /\ userStates = [u \in Users |->
                  IF u = 1
                  THEN Some([NewState(0) EXCEPT !.customCounters = << counter >>,
                                                !.dailyTasks = << task >>])
                  ELSE None]
            /\ persistentTrackers = [u \in Users |->
                  IF u = 1 THEN [EmptyTrackers EXCEPT !.customCounters = << counter >>]
                  ELSE EmptyTrackers]
    /\ customFieldTemplates = [u \in Users |-> << >>]
    /\ historicalData = [u \in Users |-> [d \in {} |-> None]]
    /\ snapshotSettings = [u \in Users |-> None]
    /\ nextId = 3
    /\ now = 0
    /\ db = EmptyDb
    /\ single = EmptySingle
    /\ runs = NoRuns

NextQuoting ==
    \/ Download(1)
    \/ TaskToggle(1)
    \/ TaskDelete(1)

SpecQuoting == InitQuoting /\ [][NextQuoting]_vars

(* Template fields and one-off fields of one user on one day, on both     *)
(* servers, with keys the two kinds of field can share                     *)
OneOffSet(u) ==
    /\ nextId <= MaxFieldId
    /\ \E key \in FieldKeys, value \in Values :
         Commit(DailyFieldSetHandler(World, u, key, value, now))
    /\ UNCHANGED now

OneOffDelete(u) ==
    /\ \E id \in 1..MaxFieldId : Commit(DailyFieldDeleteHandler(World, u, id, now))
    /\ UNCHANGED now

NextOneOff ==
    \/ FieldCreate(1)
    \/ FieldDelete(1)
    \/ FieldSet(1)
    \/ OneOffSet(1)
    \/ OneOffDelete(1)
    \/ DbTemplateCreate(1)
    \/ DbTemplateDelete(1)
    \/ DbCustomFieldSet(1)
    \/ DbDailyFieldSet(1)

SpecOneOff == Init /\ [][NextOneOff]_vars

----------------------------------------------------------------------------
(* The single-user server (the second server of part_004): its timer       *)
(* requests, as functions of its dailyState.                               *)

SingleCommit(g) ==
    /\ single' = g
    /\ UNCHANGED <<userStates, customFieldTemplates, historicalData,
                   snapshotSettings, persistentTrackers, nextId, db, runs>>

\* saveTrackersToPersistent(userId): a copy of the list, filed under the user
SingleSaveTrackers(g, userId) ==
    [g EXCEPT !.persistentTrackers[userId] =
        Some([durationTrackers |-> g.dailyState.durationTrackers])]

\* POST /api/trackers/duration
SingleCreateDurationHandler(g, userId, name) ==
    LET newTracker == [id |-> g.nextId, name |-> name, type |-> "timer", value |-> 0,
                       isRunning |-> FALSE, startTime |-> None, elapsedMs |-> 0]
    IN SingleSaveTrackers(
         [g EXCEPT !.nextId = @ + 1,
                   !.dailyState.durationTrackers = Append(@, newTracker)], userId)

SingleCreateDuration(u) ==
    /\ single.nextId <= MaxId
    /\ \E name \in TrackerNames : SingleCommit(SingleCreateDurationHandler(single, u, name))
    /\ UNCHANGED now

\* POST /api/trackers/timer/start/:id
SingleTimerStartHandler(g, userId, id, t) ==
    LET i == IndexOfId(g.dailyState.durationTrackers, id)
    IN SingleSaveTrackers(
         IF i # 0 /\ g.dailyState.durationTrackers[i].type = "timer"
         THEN [g EXCEPT !.dailyState.durationTrackers[i].isRunning = TRUE,
                        !.dailyState.durationTrackers[i].startTime = Some(t)]
         ELSE g, userId)

SingleTimerStart(u) ==
    /\ \E id \in 1..MaxId : SingleCommit(SingleTimerStartHandler(single, u, id, now))
    /\ UNCHANGED now

\* POST /api/trackers/timer/stop/:id: tracker.value += Math.floor(elapsed / 1000)
SingleTimerStopHandler(g, userId, id, t) ==
    LET i == IndexOfId(g.dailyState.durationTrackers, id)
    IN SingleSaveTrackers(
         IF i # 0 /\ g.dailyState.durationTrackers[i].type = "timer"
                  /\ g.dailyState.durationTrackers[i].isRunning
         THEN LET elapsed == t - g.dailyState.durationTrackers[i].startTime[1]
              IN [g EXCEPT !.dailyState.durationTrackers[i].value = @ + (elapsed \div 1000),
                           !.dailyState.durationTrackers[i].isRunning = FALSE,
                           !.dailyState.durationTrackers[i].startTime = None]
         ELSE g, userId)

SingleTimerStop(u) ==
    /\ \E id \in 1..MaxId : SingleCommit(SingleTimerStopHandler(single, u, id, now))
    /\ UNCHANGED now

(* The tracker requests of two users on each server *)
SingleTimerRequest(u) ==
    \/ SingleCreateDuration(u)
    \/ SingleTimerStart(u)
    \/ SingleTimerStop(u)

NextIsolation ==
    \E u \in Users : TrackerRequest(u) \/ DbTrackerRequest(u) \/ SingleTimerRequest(u)

SpecIsolation == Init /\ [][NextIsolation]_vars

----------------------------------------------------------------------------
(* Timers over time. The start and stop requests of the in-memory server   *)
(* are observed: runs records, per timer, when its open run began and the  *)
(* total length of its completed runs. A run begins with a start issued    *)
(* while no run is open and ends with the next stop.                       *)

HasTimer(w, u, id) ==
    LET list == State(GetUserState(w, u, now), u).durationTrackers
        i == IndexOfId(list, id)
    IN i # 0 /\ list[i].type = "timer"

ObservedTimerStart(u) ==
    /\ \E id \in 1..MaxId :
         /\ CommitStore(TimerStartHandler(World, u, id, now))
         /\ runs' = IF HasTimer(World, u, id) /\ runs[id].since = None
                    THEN [runs EXCEPT ![id].since = Some(now)]
                    ELSE runs
    /\ UNCHANGED <<now, db, single>>

ObservedTimerStop(u) ==
    /\ \E id \in 1..MaxId :
         /\ CommitStore(TimerStopHandler(World, u, id, now))
         /\ runs' = IF HasTimer(World, u, id) /\ runs[id].since # None
                    THEN [runs EXCEPT ![id].total = @ + (now - runs[id].since[1]),
                                      ![id].since = None]
                    ELSE runs
    /\ UNCHANGED <<now, db, single>>

NextTimers ==
    \/ Tick
    \/ NewDay
    \/ GetState(1)
    \/ CreateDuration(1)
    \/ ObservedTimerStart(1)
    \/ ObservedTimerStop(1)

SpecTimers == Init /\ [][NextTimers]_vars

(* The same timer requests of one user on each server, over time *)
NextStop ==
    \/ Tick
    \/ NewDay
    \/ CreateDuration(1)
    \/ TimerStart(1)
    \/ TimerStop(1)
    \/ DbCreateDuration(1)
    \/ DbTimerStart(1)
    \/ DbTimerStop(1)
    \/ SingleCreateDuration(1)
    \/ SingleTimerStart(1)
    \/ SingleTimerStop(1)

SpecStop == Init /\ [][NextStop]_vars

(* The entries of one user on both servers over time *)
NextEntries ==
    \/ Tick
    \/ NewDay
    \/ GetState(1)
    \/ AddEntry(1)
    \/ DbAddEntry(1)

SpecEntries == Init /\ [][NextEntries]_vars

(* The sleep fields on both servers over several days *)
NextSleep ==
    \/ NewDay
    \/ GetState(1)
    \/ UpdateDaily(1)
    \/ DbUpdateDaily(1)

SpecSleep == Init /\ [][NextSleep]_vars

----------------------------------------------------------------------------
(* Properties of the day transition *)

\* the user's state is the state of a day that is over
Stale(u) == HasState(World, u) /\ State(World, u).date # CurrentDate

\* C1: checkDateTransition is idempotent.  From every reachable state, with
\* the clock held, a second call directly after the first returns the world
\* the first call left: nothing more is archived and the Snapshot Store and
\* the state are as the first call left them.  A call made when state.date
\* already equals the current date changes nothing at all.
C1_TransitionIdempotent ==
    \A u \in ActiveUsers :
        LET once == CheckDateTransition(World, u, now)
            twice == CheckDateTransition(once, u, now)
        IN /\ twice = once
           /\ (HasState(World, u) /\ ~Stale(u)) => once = World

\* a transition is due for a day that holds an entry: the first call
\* archives and clears, so a second call has something to repeat
C1_Witness ==
    /\ Stale(1)
    /\ State(World, 1).entries # << >>
    /\ CheckDateTransition(World, 1, now) # World

\* C2: every operation that reads or mutates a user's state runs the
\* day-transition check first, so a request that leaves the state changed
\* leaves it as the state of the current date: nothing is written into a
\* day that is over.
C2_ServedOnCurrentDay ==
    [][\A u \in ActiveUsers :
          userStates'[u] # userStates[u] => userStates'[u][1].date = DateOf(now')]_vars

\* the fields of the day that a transition resets are empty
Cleared(state) ==
    /\ state.entries = << >>
    /\ state.dailyTasks = << >>
    /\ state.dailyCustomFields = << >>
    /\ state.previousBedtime = ""
    /\ state.wakeTime = ""

\* C3: at a transition the day is cleared only after it has been archived:
\* when checkDateTransition returns, the snapshot stored under the
\* pre-transition date holds the state exactly as it was before the call, and
\* the active state has its entries, tasks, daily fields and sleep times empty.
C3_ArchivedBeforeCleared ==
    \A u \in ActiveUsers :
        Stale(u) =>
            LET old == State(World, u)
                after == CheckDateTransition(World, u, now)
            IN /\ old.date \in DOMAIN after.historicalData[u]
               /\ Snapshot(after, u, old.date) = old
               /\ Cleared(State(after, u))

\* C4: a day transition leaves every time-since tracker and every duration
\* tracker as it was: the same trackers in the same order, each with the same
\* id, name, reference date or type, value, startTime, elapsedMs and
\* isRunning.
C4_TrackersSurviveTransition ==
    \A u \in ActiveUsers :
        Stale(u) =>
            LET old == State(World, u)
                new == State(CheckDateTransition(World, u, now), u)
            IN /\ new.timeSinceTrackers = old.timeSinceTrackers
               /\ new.durationTrackers = old.durationTrackers

\* a transition is due while a timer that has run holds time
C4_Witness ==
    /\ Stale(1)
    /\ \E i \in DOMAIN State(World, 1).durationTrackers :
          State(World, 1).durationTrackers[i].elapsedMs > 0

\* C5: after a day transition every counter that existed before it still
\* exists, in its place, with the same id and name and with value 0.
C5_CountersResetByTransition ==
    \A u \in ActiveUsers :
        Stale(u) =>
            LET old == State(World, u).customCounters
                new == State(CheckDateTransition(World, u, now), u).customCounters
            IN /\ Len(new) = Len(old)
               /\ \A i \in 1..Len(old) :
                     /\ new[i].id = old[i].id
                     /\ new[i].name = old[i].name
                     /\ new[i].value = 0

\* a transition is due while a counter stands above 0
C5_Witness ==
    /\ Stale(1)
    /\ \E i \in DOMAIN State(World, 1).customCounters :
          State(World, 1).customCounters[i].value > 0

\* C6: after a day transition customFields holds exactly one field per
\* template the user has defined, in the order of the templates, each with
\* the template's key and the value ''.
C6_TemplateFieldsBlankAfterTransition ==
    \A u \in ActiveUsers :
        Stale(u) =>
            LET templates == World.customFieldTemplates[u]
                fields == State(CheckDateTransition(World, u, now), u).customFields
            IN /\ Len(fields) = Len(templates)
               /\ \A i \in 1..Len(templates) :
                     /\ fields[i].key = templates[i].key
                     /\ fields[i].value = ""

\* a transition is due while the field of a template holds a value
C6_Witness ==
    /\ Stale(1)
    /\ World.customFieldTemplates[1] # << >>
    /\ \E i \in DOMAIN State(World, 1).customFields :
          State(World, 1).customFields[i].value # ""

\* C7: when more than one day has passed, one checkDateTransition archives
\* exactly one snapshot, keyed by the old state.date: when it returns the
\* store holds a snapshot of the old date, it holds no date it did not hold
\* before other than the old date (none for a day in between, none for the
\* current day), and state.date is the current date.
C7_GapCollapses ==
    \A u \in ActiveUsers :
        (Stale(u) /\ CurrentDate - State(World, u).date > 1) =>
            LET old == State(World, u)
                after == CheckDateTransition(World, u, now)
            IN /\ State(after, u).date = CurrentDate
               /\ old.date \in DOMAIN after.historicalData[u]
               /\ DOMAIN after.historicalData[u] \subseteq
                      DOMAIN historicalData[u] \cup {old.date}

\* what the store of a user holds, date by date
Archived(u) == [d \in DOMAIN historicalData[u] |-> Snapshot(World, u, d)]

\* the requests that change the live state and archive nothing
Mutation(u) ==
    \/ DailyRequest(u)
    \/ TrackerRequest(u)
    \/ CounterRequest(u)
    \/ TemplateRequest(u)

\* C8: an archived snapshot is a copy of its own.  A request that changes
\* the live state and archives nothing leaves what the store holds for every
\* date as it was; and in any step, what the store holds for a date it keeps
\* changes only by a new archive of that same date, that is to the state of
\* that date as it was before or is after the step.  A date leaves the store
\* only by a delete or by retention.
C8_SnapshotsIndependent ==
    [][\A u \in ActiveUsers :
          /\ Mutation(u) => Archived(u)' = Archived(u)
          /\ \A d \in DOMAIN historicalData[u] \cap DOMAIN historicalData'[u] :
                Archived(u)'[d] # Archived(u)[d] =>
                    \/ userStates[u] # None /\ userStates[u][1].date = d
                                            /\ Archived(u)'[d] = userStates[u][1]
                    \/ userStates'[u][1].date = d
                       /\ Archived(u)'[d] = userStates'[u][1]]_vars

\* the day has been archived and the live state of that day has since
\* gained an entry the snapshot does not have
C8_Witness ==
    /\ HasState(World, 1)
    /\ State(World, 1).date \in DOMAIN historicalData[1]
    /\ Snapshot(World, 1, State(World, 1).date).entries = << >>
    /\ State(World, 1).entries # << >>

----------------------------------------------------------------------------
(* Properties of retention *)

\* C9: retention runs after every archival and after every update of the
\* retention settings: in every reachable state a user whose effective
\* maxCount is N > 0 has at most N archived snapshots.
C9_CountBounded ==
    \A u \in Users :
        LET maxCount == EffectiveSettings(World, u).maxCount
        IN Positive(maxCount) => Cardinality(DOMAIN historicalData[u]) <= maxCount[1]

\* the store is full under maxCount = 1, the snapshot it holds is not the
\* oldest day's, and the live day is still to be archived
C9_Witness ==
    /\ snapshotSettings[1] # None
    /\ snapshotSettings[1][1].maxCount = Some(1)
    /\ DOMAIN historicalData[1] = {1}
    /\ Stale(1)

\* the n most recent of a set of dates
MostRecent(dates, n) == {d \in dates : Cardinality({e \in dates : e > d}) < n}

Min(a, b) == IF a <= b THEN a ELSE b

\* C10: with maxDays = 0 the age filter is off and a retention pass under
\* maxCount = N > 0 leaves exactly the min(N, count) most recent snapshots,
\* each as it was; under maxCount = 0 the pass deletes nothing.
C10_KeepsMostRecent ==
    \A n \in 0..MaxKeep :
        LET policy == [maxDays |-> Some(0), maxCount |-> Some(n)]
            before == historicalData[1]
            after == CleanupOldSnapshots(
                         [World EXCEPT !.snapshotSettings[1] = Some(policy)],
                         1, now).historicalData[1]
        IN /\ \A d \in DOMAIN after : after[d] = before[d]
           /\ IF n > 0
              THEN /\ DOMAIN after = MostRecent(DOMAIN before, n)
                   /\ Cardinality(DOMAIN after) = Min(n, Cardinality(DOMAIN before))
              ELSE DOMAIN after = DOMAIN before

\* ten days were archived and the policy maxDays = 0, maxCount = 5 was put:
\* the five most recent days are left
C10_Witness ==
    /\ snapshotSettings[1] = Some([maxDays |-> Some(0), maxCount |-> Some(5)])
    /\ DOMAIN historicalData[1] = 6..10

\* C11: with maxDays = D > 0, after a retention pass no snapshot dated
\* strictly before today - D remains, whatever maxCount is, and the age
\* filter removes no snapshot dated today - D or later; with maxDays = 0 the
\* age filter removes nothing.
C11_AgeFilter ==
    \A D \in 0..MaxAge, n \in 0..MaxKeep :
        LET policy == [maxDays |-> Some(D), maxCount |-> Some(n)]
            before == DOMAIN historicalData[1]
            aged == AgeKept(before, policy, now)
            after == DOMAIN CleanupOldSnapshots(
                         [World EXCEPT !.snapshotSettings[1] = Some(policy)],
                         1, now).historicalData[1]
        IN IF D > 0
           THEN /\ \A d \in after : d >= CurrentDate - D
                /\ \A d \in before : d >= CurrentDate - D => d \in aged
           ELSE aged = before

\* the policy maxDays = 3 was put on ten archived days: the day dated
\* exactly today - 3 is the oldest one left
C11_Witness ==
    /\ snapshotSettings[1] = Some([maxDays |-> Some(3), maxCount |-> Some(0)])
    /\ DOMAIN historicalData[1] = (CurrentDate - 3)..MaxArchived
    /\ CurrentDate - 3 \in DOMAIN historicalData[1]

\* C12: for every archive and every policy, the age filter followed by the
\* count filter keeps the same set of snapshots as the count filter followed
\* by the age filter.
C12_FiltersCommute ==
    \A D \in 0..MaxAge, n \in 0..MaxKeep :
        LET policy == [maxDays |-> Some(D), maxCount |-> Some(n)]
            dates == DOMAIN historicalData[1]
        IN CountKept(AgeKept(dates, policy, now), policy)
               = AgeKept(CountKept(dates, policy), policy, now)

\* a policy under which both filters delete was put on ten archived days
C12_Witness ==
    /\ snapshotSettings[1] = Some([maxDays |-> Some(3), maxCount |-> Some(2)])
    /\ DOMAIN historicalData[1] = {MaxArchived - 1, MaxArchived}

----------------------------------------------------------------------------
(* Properties of archiving and export *)

\* C13: archive overwrites.  The store maps each date of a user to one
\* snapshot; a save for a date that is already archived replaces the stored
\* copy by the state as it is now, and a second save directly after the
\* first, with nothing changed in between, leaves the Snapshot Store exactly
\* as the first save left it.
C13_ArchiveOverwrites ==
    \A u \in ActiveUsers :
        LET state == State(GetUserState(World, u, now), u)
            once == SaveSnapshotHandler(World, u, now)
            twice == SaveSnapshotHandler(once, u, now)
        IN /\ twice.historicalData = once.historicalData
           /\ state.date \in DOMAIN once.historicalData[u] =>
                  Snapshot(once, u, state.date) = state

\* the day is archived and the live state has changed since: a save now
\* replaces a stored copy that differs
C13_Witness ==
    /\ HasState(World, 1)
    /\ State(World, 1).date \in DOMAIN historicalData[1]
    /\ Snapshot(World, 1, State(World, 1).date) # State(World, 1)

\* the in-memory server: after a today-export the archive holds the current
\* date, and the stored copy equals the state that was rendered
ExportArchivesInMemory ==
    \A u \in Users :
        LET after == DownloadHandler(World, u, now)
        IN /\ State(after, u).date = CurrentDate
           /\ CurrentDate \in DOMAIN after.historicalData[u]
           /\ Snapshot(after, u, CurrentDate) = State(after, u)

\* the database-backed server: after a today-export the dates it lists as
\* archived include the date of the state that was rendered
ExportArchivesInDb ==
    \A u \in Users :
        LET after == DbDownloadHandler(db, u, now)
            dates == DbAvailableDates(after, u)
        IN \E i \in 1..Len(dates) : dates[i] = DbGetUserState(after, u, now).date

\* C14: a today-export (Markdown or PDF) runs the day-transition check and
\* archives the current day before it renders: right after it the snapshot
\* store holds a snapshot for the current date, equal to the rendered
\* day state.
C14_TodayExportArchives ==
    /\ ExportArchivesInMemory
    /\ ExportArchivesInDb

C16_ExportFilename ==
    /\ \A ext \in Extensions :
          DownloadFilename(World, 1, now, ext) = << CurrentDate, ext >>
    /\ \A startDate \in RangeDates, endDate \in RangeDates, ext \in Extensions :
          LET r == DownloadRangeHandler(World, 1, Some(startDate), Some(endDate), ext)
          IN r.status = 200 =>
               IF Len(r.days) = 1
               THEN r.filename = << r.days[1].date, ext >>
               ELSE r.filename = << startDate, "_to_", endDate, ext >>


\* what the in-memory server holds of one user
DataOf(w, u) ==
    [state |-> w.userStates[u],
     templates |-> w.customFieldTemplates[u],
     snapshots |-> w.historicalData[u],
     settings |-> w.snapshotSettings[u],
     trackers |-> w.persistentTrackers[u]]

\* what the database holds of one user
DbDataOf(d, u) ==
    [daily_state |-> {r \in d.daily_state : r.user_id = u},
     time_since_trackers |-> {r \in d.time_since_trackers : r.user_id = u},
     duration_trackers |-> {r \in d.duration_trackers : r.user_id = u}]

\* the in-memory server: a request of user a addressed by id leaves what
\* is held of user b as it was
IsolatedInMemory ==
    \A a \in Users : \A b \in Users \ {a} : \A id \in 1..MaxId :
        LET Untouched(after) == DataOf(after, b) = DataOf(World, b)
        IN /\ Untouched(DeleteTimeSinceHandler(World, a, id, now))
           /\ Untouched(DeleteDurationHandler(World, a, id, now))
           /\ \A startTime \in ManualStarts, elapsedMs \in ManualElapsed :
                Untouched(ManualTimeHandler(World, a, id, startTime, elapsedMs, now))
           /\ Untouched(TimerStartHandler(World, a, id, now))
           /\ Untouched(TimerStopHandler(World, a, id, now))
           /\ Untouched(TimerResetHandler(World, a, id, now))
           /\ Untouched(CounterIncrementHandler(World, a, id, now))
           /\ Untouched(CounterDecrementHandler(World, a, id, now))
           /\ Untouched(CounterDeleteHandler(World, a, id, now))
           /\ Untouched(DailyFieldDeleteHandler(World, a, id, now))
           /\ Untouched(TaskToggleHandler(World, a, id, now))
           /\ Untouched(TaskDeleteHandler(World, a, id, now))
           /\ Untouched(TemplateDeleteHandler(World, a, id, now))

\* the database-backed server: the same, and what the request answers is
\* made of rows of user a
IsolatedInDb ==
    \A a \in Users : \A b \in Users \ {a} : \A id \in 1..MaxRowId :
        LET Untouched(after) ==
                /\ DbDataOf(after, b) = DbDataOf(db, b)
                /\ LET answer == DbGetUserState(after, a, now)
                   IN /\ \A i \in DOMAIN answer.durationTrackers :
                            \A r \in after.duration_trackers :
                                r.id = answer.durationTrackers[i].id => r.user_id = a
                      /\ \A i \in DOMAIN answer.timeSinceTrackers :
                            \A r \in after.time_since_trackers :
                                r.id = answer.timeSinceTrackers[i].id => r.user_id = a
        IN /\ Untouched(DbDeleteTimeSinceHandler(db, a, id, now))
           /\ Untouched(DbDeleteDurationHandler(db, a, id, now))
           /\ \A startTime \in ManualStarts, elapsedMs \in ManualElapsed :
                Untouched(DbManualTimeHandler(db, a, id, startTime, elapsedMs, now))
           /\ Untouched(DbTimerStartHandler(db, a, id, now))
           /\ Untouched(DbTimerStopHandler(db, a, id, now))
           /\ Untouched(DbTimerResetHandler(db, a, id, now))

\* the single-user server: a timer request of user a leaves the day state
\* served to user b, and b's persistent trackers, as they were
IsolatedInSingle ==
    \A a \in Users : \A b \in Users \ {a} : \A id \in 1..MaxId :
        LET Untouched(after) ==
                /\ after.dailyState = single.dailyState
                /\ after.persistentTrackers[b] = single.persistentTrackers[b]
        IN /\ Untouched(SingleTimerStartHandler(single, a, id, now))
           /\ Untouched(SingleTimerStopHandler(single, a, id, now))

\* C17: per-user isolation: no request of user A, one addressed by an id
\* that belongs to user B included, changes or returns any part of what
\* the server holds of user B.
C17_PerUserIsolation ==
    /\ IsolatedInMemory
    /\ IsolatedInDb
    /\ IsolatedInSingle

\* the in-memory server: the field the body leaves out keeps its stored value
SleepPartialInMemory ==
    \A u \in Users :
        LET stored == State(GetUserState(World, u, now), u)
        IN /\ \A wakeTime \in WakeTimes \ {None} :
                LET after == State(UpdateDailyHandler(World, u, None, wakeTime, now), u)
                IN /\ after.previousBedtime = stored.previousBedtime
                   /\ after.wakeTime = wakeTime[1]
           /\ \A previousBedtime \in Bedtimes \ {None} :
                LET after == State(UpdateDailyHandler(World, u, previousBedtime, None, now), u)
                IN /\ after.wakeTime = stored.wakeTime
                   /\ after.previousBedtime = previousBedtime[1]

\* the database-backed server: the same, read through getUserState
SleepPartialInDb ==
    \A u \in Users :
        LET stored == DbGetUserState(db, u, now)
        IN /\ \A wakeTime \in WakeTimes \ {None} :
                LET after == DbGetUserState(
                                DbUpdateDailyHandler(db, u, [previousBedtime |-> None,
                                                             wakeTime |-> wakeTime], now), u, now)
                IN /\ after.previousBedtime = stored.previousBedtime
                   /\ after.wakeTime = wakeTime[1]
           /\ \A previousBedtime \in Bedtimes \ {None} :
                LET after == DbGetUserState(
                                DbUpdateDailyHandler(db, u, [previousBedtime |-> previousBedtime,
                                                             wakeTime |-> None], now), u, now)
                IN /\ after.wakeTime = stored.wakeTime
                   /\ after.previousBedtime = previousBedtime[1]

\* C18: updating the sleep fields is a partial update: with only wakeTime in
\* the body previousBedtime keeps its stored value, and with only
\* previousBedtime in the body wakeTime keeps its stored value.
C18_SleepPartialUpdate ==
    /\ SleepPartialInMemory
    /\ SleepPartialInDb


\* the timers the in-memory server keeps for a user
TimersOf(u) ==
    LET list == persistentTrackers[u].durationTrackers
    IN {list[i] : i \in DOMAIN list}

\* C19: pause and resume preserve the elapsed time: over start and stop
\* requests alone, a stopped timer's elapsedMs is the total length of its
\* completed runs, a run lasting from the first start issued while the timer
\* is stopped to the next stop; and elapsedMs never decreases.
C19_ElapsedPreserved ==
    /\ [](\A tracker \in TimersOf(1) :
            ~tracker.isRunning => tracker.elapsedMs = runs[tracker.id].total)
    /\ [][\A tracker \in TimersOf(1) : \A later \in TimersOf(1)' :
            later.id = tracker.id => later.elapsedMs >= tracker.elapsedMs]_vars


\* what a stop at time t makes of a running timer
Stopped(tracker, t) ==
    LET total == tracker.elapsedMs + (t - tracker.startTime[1])
    IN [tracker EXCEPT !.elapsedMs = total,
                       !.value = total \div 1000,
                       !.isRunning = FALSE,
                       !.startTime = None]

\* a list of trackers after a stop of the one with this id
StoppedIn(list, id, t) ==
    [i \in DOMAIN list |->
        IF list[i].id = id /\ list[i].type = "timer" /\ list[i].isRunning
        THEN Stopped(list[i], t) ELSE list[i]]

\* the in-memory server
StopInMemory ==
    \A id \in 1..MaxId :
        LET current == State(GetUserState(World, 1, now), 1)
            after == State(TimerStopHandler(World, 1, id, now), 1)
        IN /\ after.durationTrackers = StoppedIn(current.durationTrackers, id, now)
           /\ after.timeSinceTrackers = current.timeSinceTrackers

\* the database-backed server, its rows read as getDurationTrackers reads
\* them, the start time as a number
StopInDb ==
    \A id \in 1..MaxRowId :
        LET Read(d) == LET list == GetDurationTrackers(d, 1)
                       IN [i \in DOMAIN list |->
                            [id |-> list[i].id, name |-> list[i].name,
                             type |-> list[i].type, value |-> list[i].value,
                             isRunning |-> list[i].isRunning,
                             startTime |-> IF list[i].startTime = None THEN None
                                           ELSE Some(ToNumber(list[i].startTime)),
                             elapsedMs |-> list[i].elapsedMs]]
            after == DbTimerStopHandler(db, 1, id, now)
        IN /\ Read(after) = StoppedIn(Read(db), id, now)
           /\ after.time_since_trackers = db.time_since_trackers

\* the single-user server
StopInSingle ==
    \A id \in 1..MaxId :
        LET after == SingleTimerStopHandler(single, 1, id, now)
        IN after.dailyState.durationTrackers =
              StoppedIn(single.dailyState.durationTrackers, id, now)

\* C20: a stop of a running timer adds now - startTime to elapsedMs, sets
\* value to the whole seconds of the new elapsedMs and clears isRunning and
\* startTime; a stop of a timer that is not running changes no field of any
\* tracker.
C20_StopTimer ==
    /\ StopInMemory
    /\ StopInDb
    /\ StopInSingle


\* the in-memory server: a start leaves every running timer as it was
StartNoOpInMemory ==
    \A id \in 1..MaxId :
        LET current == State(GetUserState(World, 1, now), 1).durationTrackers
            after == State(TimerStartHandler(World, 1, id, now), 1).durationTrackers
        IN \A i \in DOMAIN current :
              current[i].isRunning => after[i] = current[i]

\* the database-backed server: the same, of the user's rows
StartNoOpInDb ==
    \A id \in 1..MaxRowId :
        LET current == GetDurationTrackers(db, 1)
            after == GetDurationTrackers(DbTimerStartHandler(db, 1, id, now), 1)
        IN \A i \in DOMAIN current :
              current[i].isRunning => after[i] = current[i]

\* C21: a start of a timer that is already running succeeds and changes
\* nothing: isRunning, startTime, elapsedMs and value are as they were.
C21_StartWhileRunning ==
    /\ StartNoOpInMemory
    /\ StartNoOpInDb


\* the in-memory server
ManualTimeInMemory ==
    \A trackerId \in 1..MaxId, startTime \in ManualStarts, elapsedMs \in ManualElapsed :
        LET current == GetUserState(World, 1, now)
            list == State(current, 1).durationTrackers
            i == IndexOfId(list, trackerId)
            status == ManualTimeStatus(World, 1, trackerId, now)
            after == ManualTimeHandler(World, 1, trackerId, startTime, elapsedMs, now)
        IN IF i = 0 THEN status = 404 /\ after = current
           ELSE IF list[i].type # "timer" THEN status = 400 /\ after = current
           ELSE /\ status = 200
                /\ State(after, 1).durationTrackers =
                      [list EXCEPT ![i].elapsedMs = elapsedMs,
                                   ![i].startTime = Some(startTime),
                                   ![i].isRunning = FALSE]

\* the database-backed server
ManualTimeInDb ==
    \A trackerId \in 1..MaxRowId, startTime \in ManualStarts, elapsedMs \in ManualElapsed :
        LET list == GetDurationTrackers(db, 1)
            i == IndexOfId(list, trackerId)
            status == DbManualTimeStatus(db, 1, trackerId, now)
            after == DbManualTimeHandler(db, 1, trackerId, startTime, elapsedMs, now)
        IN IF i = 0 THEN status = 404 /\ after = db
           ELSE IF list[i].type # "timer" THEN status = 400 /\ after = db
           ELSE /\ status = 200
                /\ LET tracker == GetDurationTrackers(after, 1)[i]
                   IN /\ tracker.elapsedMs = elapsedMs
                      /\ ToNumber(tracker.startTime) = startTime
                      /\ ~tracker.isRunning

\* C22: setting a manual time answers NotFound when the user has no duration
\* tracker with the id and InvalidState when the tracker is not a timer, and
\* then changes no tracker and no stored state; when it succeeds it
\* overwrites elapsedMs and startTime with the supplied values and clears
\* isRunning.
C22_ManualTimeErrors ==
    /\ ManualTimeInMemory
    /\ ManualTimeInDb


\* the in-memory server: the counters of the day state and of the
\* persistent store
NonNegativeInMemory ==
    /\ HasState(World, 1) =>
          \A i \in DOMAIN State(World, 1).customCounters :
              State(World, 1).customCounters[i].value >= 0
    /\ \A i \in DOMAIN persistentTrackers[1].customCounters :
          persistentTrackers[1].customCounters[i].value >= 0
    /\ \A id \in 1..MaxId :
          LET current == State(GetUserState(World, 1, now), 1).customCounters
              after == State(CounterDecrementHandler(World, 1, id, now), 1).customCounters
          IN \A i \in DOMAIN current : current[i].value = 0 => after[i].value = 0

\* the database-backed server: the stored values and the counters served
NonNegativeInDb ==
    /\ \A r \in db.custom_counter_values : r.value >= 0
    /\ \A id \in 1..MaxRowId :
          GetCustomCounterValue(db, id, CurrentDate) = 0 =>
             GetCustomCounterValue(DbCounterDecrementHandler(db, 1, id, now), id, CurrentDate) = 0

\* C23: every counter value is at least 0 in every reachable state: a
\* decrement of a counter at 0 leaves it at 0, and no sequence of create,
\* increment, decrement, set and day transitions makes a value negative.
C23_CountersNonNegative ==
    /\ NonNegativeInMemory
    /\ NonNegativeInDb

\* a JSON value that is a non-negative integer
NonNegativeInteger(value) ==
    value.type = "number" /\ value.num >= 0 /\ value.num % Unit = 0

\* the in-memory server
SetValueInMemory ==
    \A id \in 1..MaxId, value \in CounterInputs :
        LET current == GetUserState(World, 1, now)
            list == State(current, 1).customCounters
            i == IndexOfId(list, id)
            after == CounterSetHandler(World, 1, id, value, now)
        IN IF i # 0 /\ NonNegativeInteger(value)
           THEN State(after, 1).customCounters = [list EXCEPT ![i].value = value.num]
           ELSE State(after, 1).customCounters = list

\* the database-backed server
SetValueInDb ==
    \A id \in 1..MaxRowId, value \in CounterInputs :
        LET list == GetCustomCounters(db, 1, CurrentDate)
            i == IndexOfId(list, id)
            after == GetCustomCounters(DbCounterSetHandler(db, 1, id, value, now), 1, CurrentDate)
        IN IF i # 0 /\ NonNegativeInteger(value)
           THEN after = [list EXCEPT ![i].value = value.num]
           ELSE after = list

\* C24: setting a counter accepts only non-negative integers: a negative, a
\* non-integer or a non-numeric value leaves the value as it was, without an
\* error, and an accepted value v makes the value exactly v.
C24_SetCounterValue ==
    /\ SetValueInMemory
    /\ SetValueInDb


\* the decoded size of a base64 text of this length, rounded up
DecodedSize(base64Length) == (3 * base64Length + 3) \div 4

\* the in-memory server
AddEntryInMemory ==
    \A text \in Texts, imageLength \in ImageLengths :
        LET after == AddEntryHandler(World, 1, text, imageLength, now)
            before == State(GetUserState(World, 1, now), 1)
        IN IF imageLength > 0 /\ DecodedSize(imageLength) > MaxImageBytes
           THEN after = World
           ELSE /\ HasState(after, 1)
                /\ Len(State(after, 1).entries) = Len(before.entries) + 1
                /\ SubSeq(State(after, 1).entries, 1, Len(before.entries)) = before.entries
                /\ State(after, 1).entries[Len(before.entries) + 1].text = text

\* the database-backed server
AddEntryInDb ==
    \A text \in Texts, imageLength \in ImageLengths :
        LET after == DbAddEntryHandler(db, 1, text, imageLength, now)
            before == DbGetUserState(db, 1, now).entries
            entries == DbGetUserState(after, 1, now).entries
        IN IF imageLength > 0 /\ DecodedSize(imageLength) > MaxImageBytes
           THEN after = db
           ELSE /\ Len(entries) = Len(before) + 1
                /\ SubSeq(entries, 1, Len(before)) = before
                /\ entries[Len(before) + 1].text = text

KeysOf(list) == [i \in 1..Len(list) |-> list[i].key]

\* no element occurs twice in the sequence
NoDuplicates(seq) ==
    \A i, j \in 1..Len(seq) : seq[i] = seq[j] => i = j

Synchronized(templates, fields) ==
    /\ {templates[i].key : i \in 1..Len(templates)} =
          {fields[i].key : i \in 1..Len(fields)}
    /\ NoDuplicates(KeysOf(fields))

\* the in-memory server: a user without a state has no template
SynchronizedInMemory ==
    IF HasState(World, 1)
    THEN Synchronized(customFieldTemplates[1], State(World, 1).customFields)
    ELSE customFieldTemplates[1] = << >>

\* the database-backed server: the fields of the state of the current date
SynchronizedInDb ==
    Synchronized(GetCustomFieldTemplates(db, 1),
                 DbGetUserState(db, 1, now).customFields)

\* C26: after any sequence of template creations, template deletions, field
\* value updates and day transitions, the set of keys of the template fields
\* of the current state equals the set of keys of the user's templates, and
\* no key occurs twice among the fields.
C26_TemplateFieldsSynchronized ==
    /\ SynchronizedInMemory
    /\ SynchronizedInDb

\* the first of two templates has been deleted and the field of the second
\* holds a value on a later day, on both servers
C26_Witness ==
    /\ HasState(World, 1)
    /\ State(World, 1).date > 0
    /\ Len(customFieldTemplates[1]) = 1
    /\ customFieldTemplates[1][1].id > 1
    /\ State(World, 1).customFields[1].value # ""
    /\ CurrentDate > 0
    /\ \E r \in db.custom_field_templates : r.id > 1
    /\ Cardinality(db.custom_field_templates) = 1
    /\ DbGetUserState(db, 1, now).customFields[1].value # ""


\* the answer that rejects a second template of a key
Conflict(response) ==
    /\ response.status >= 400
    /\ response.error = "Template already exists"

DuplicateRejectedInMemory ==
    \A key \in FieldKeys :
        IndexOfKey(customFieldTemplates[1], key) # 0 =>
            /\ Conflict(TemplateCreateResponse(World, 1, key, now))
            /\ TemplateCreateHandler(World, 1, key, now) = World

DuplicateRejectedInDb ==
    \A key \in FieldKeys :
        IndexOfKey(GetCustomFieldTemplates(db, 1), key) # 0 =>
            /\ Conflict(DbTemplateCreateResponse(db, 1, key, now))
            /\ DbTemplateCreateHandler(db, 1, key, now) = db

\* C27: creating a template whose key the user already has is rejected with
\* the error of a duplicate, and leaves the templates and the template
\* fields of the current state (with everything else) unchanged.
C27_DuplicateTemplateRejected ==
    /\ DuplicateRejectedInMemory
    /\ DuplicateRejectedInDb

\* both templates exist on both servers, on a day after their creation
C27_Witness ==
    /\ Len(customFieldTemplates[1]) = 2
    /\ Cardinality(db.custom_field_templates) = 2
    /\ HasState(World, 1)
    /\ State(World, 1).date < CurrentDate


\* C28: right after saveDailySnapshot returns, the store of the user holds a
\* snapshot under the date of the state it has just archived, whatever the
\* retention settings and however many days lie between that date and the
\* current one.
C28_ArchivalSurvivesRetention ==
    \A u \in ActiveUsers :
        HasState(World, u) =>
            State(World, u).date \in
                DOMAIN SaveDailySnapshot(World, u, now).historicalData[u]


\* the stopped timers of a list hold the whole seconds of their elapsedMs
ValueFollowsElapsed(list) ==
    \A i \in 1..Len(list) :
        (list[i].type = "timer" /\ ~list[i].isRunning) =>
            list[i].value = list[i].elapsedMs \div 1000

ValueFollowsElapsedInMemory ==
    \A u \in Users :
        HasState(World, u) => ValueFollowsElapsed(State(World, u).durationTrackers)

ValueFollowsElapsedInDb ==
    \A u \in Users : ValueFollowsElapsed(GetDurationTrackers(db, u))

\* C29: in every reachable state, every timer that is not running has
\* value = floor(elapsedMs / 1000): after its creation, a stop, a reset and
\* a manual time entry.
C29_ValueFollowsElapsed ==
    /\ ValueFollowsElapsedInMemory
    /\ ValueFollowsElapsedInDb


\* the persistent record of the user holds the trackers and counters of the
\* state, with the same ids and field values, in the same order
WrittenThrough(w, u) ==
    /\ HasState(w, u)
    /\ w.persistentTrackers[u].timeSinceTrackers = State(w, u).timeSinceTrackers
    /\ w.persistentTrackers[u].durationTrackers = State(w, u).durationTrackers
    /\ w.persistentTrackers[u].customCounters = State(w, u).customCounters

\* what each mutation of a tracker or a counter leaves, for every input; a
\* manual time entry answered 404 or 400 is no mutation
TrackerMutations(w, u, t) ==
    {CreateTimeSinceHandler(w, u, name, date, t) : name \in TrackerNames, date \in RefDates}
    \cup {DeleteTimeSinceHandler(w, u, id, t) : id \in 1..MaxId}
    \cup {CreateDurationHandler(w, u, name, t) : name \in TrackerNames}
    \cup {DeleteDurationHandler(w, u, id, t) : id \in 1..MaxId}
    \cup {ManualTimeHandler(w, u, id, startTime, elapsedMs, t) :
             id \in {i \in 1..MaxId : ManualTimeStatus(w, u, i, t) = 200},
             startTime \in ManualStarts, elapsedMs \in ManualElapsed}
    \cup {TimerStartHandler(w, u, id, t) : id \in 1..MaxId}
    \cup {TimerStopHandler(w, u, id, t) : id \in 1..MaxId}
    \cup {TimerResetHandler(w, u, id, t) : id \in 1..MaxId}
    \cup {CounterCreateHandler(w, u, name, t) : name \in CounterNames}
    \cup {CounterIncrementHandler(w, u, id, t) : id \in 1..MaxId}
    \cup {CounterDecrementHandler(w, u, id, t) : id \in 1..MaxId}
    \cup {CounterSetHandler(w, u, id, value, t) : id \in 1..MaxId, value \in CounterInputs}
    \cup {CounterDeleteHandler(w, u, id, t) : id \in 1..MaxId}

\* C30: after every mutation of a tracker or a counter (time-since create
\* and delete; duration create, delete, start, stop, reset and manual time;
\* counter create, increment, decrement, set and delete), in every reachable
\* state and for every input, the persistent record holds the same trackers
\* and counters, with the same ids and field values, as the state.
C30_WriteThrough ==
    \A u \in ActiveUsers :
        \A after \in TrackerMutations(World, u, now) : WrittenThrough(after, u)

\* a counter counted up on a later day than its creation: the day
\* transition has reset it in the state, and the increment has written the
\* new value through
C30_Witness ==
    /\ HasState(World, 1)
    /\ State(World, 1).date > 0
    /\ \E i \in DOMAIN State(World, 1).customCounters :
          State(World, 1).customCounters[i].value > 0
    /\ WrittenThrough(World, 1)
    /\ DOMAIN historicalData[1] # {}


\* deleting by the id of the field leaves neither a template nor a field
\* of its key
DeletesByFieldId(templates, fields, key) ==
    /\ IndexOfKey(templates, key) = 0
    /\ IndexOfKey(fields, key) = 0

\* the in-memory server: the state as the last request left it (what
\* createTemplateField answered with) and as GET /api/state returns it
FieldIdDeletesInMemory ==
    \A w \in {GetUserState(World, 1, now), CheckDateTransition(World, 1, now)} :
        \A i \in DOMAIN State(w, 1).customFields :
            LET f == State(w, 1).customFields[i]
                after == TemplateDeleteHandler(w, 1, f.id, now)
            IN DeletesByFieldId(after.customFieldTemplates[1],
                                State(after, 1).customFields, f.key)

FieldIdDeletesInDb ==
    \A i \in DOMAIN DbGetUserState(db, 1, now).customFields :
        LET f == DbGetUserState(db, 1, now).customFields[i]
            after == DbTemplateDeleteHandler(db, 1, f.id, now)
        IN DeletesByFieldId(GetCustomFieldTemplates(after, 1),
                            DbGetUserState(after, 1, now).customFields, f.key)

\* C31: for every field f of the template fields of a state the server has
\* returned, deleting the template with f.id removes the template whose key
\* is f.key and removes f from the template fields, on the day the template
\* was created as well as after a day transition.
C31_FieldIdDeletesTemplate ==
    /\ FieldIdDeletesInMemory
    /\ FieldIdDeletesInDb


\* the in-memory server: the one-off fields after each operation on a
\* template, and the template fields after each operation on a one-off field
NoInterferenceInMemory ==
    LET w == GetUserState(World, 1, now)
        oneOff(x) == State(x, 1).dailyCustomFields
        fields(x) == State(x, 1).customFields
    IN /\ \A key \in FieldKeys :
            /\ oneOff(TemplateCreateHandler(w, 1, key, now)) = oneOff(w)
            /\ \A value \in Values :
                  /\ oneOff(CustomFieldSetHandler(w, 1, key, value, now)) = oneOff(w)
                  /\ fields(DailyFieldSetHandler(w, 1, key, value, now)) = fields(w)
       /\ \A id \in 1..(MaxFieldId + 2) :
            /\ oneOff(TemplateDeleteHandler(w, 1, id, now)) = oneOff(w)
            /\ fields(DailyFieldDeleteHandler(w, 1, id, now)) = fields(w)

\* the database-backed server, for the operations of the model (adding a
\* one-off field and the three operations on templates)
NoInterferenceInDb ==
    LET oneOff(d) == DbGetUserState(d, 1, now).dailyCustomFields
        fields(d) == DbGetUserState(d, 1, now).customFields
    IN /\ \A key \in FieldKeys :
            /\ oneOff(DbTemplateCreateHandler(db, 1, key, now)) = oneOff(db)
            /\ \A value \in Values :
                  /\ oneOff(DbCustomFieldSetHandler(db, 1, key, value, now)) = oneOff(db)
                  /\ fields(DbDailyFieldSetHandler(db, 1, key, value, now)) = fields(db)
       /\ \A id \in 1..MaxTemplateRows :
            oneOff(DbTemplateDeleteHandler(db, 1, id, now)) = oneOff(db)

\* C32: creating a template, setting the value of a template field and
\* deleting a template never change the key or value of a one-off field,
\* and adding or deleting a one-off field never changes the value or the
\* presence of a template field, also when a one-off field and a template
\* have the same key.
C32_FieldKindsIndependent ==
    /\ NoInterferenceInMemory
    /\ NoInterferenceInDb


\* the in-memory server: the settings in effect are those cleanupOldSnapshots
\* and GET /api/exports/retention-settings read
PartialSettingsInMemory ==
    \A n \in RetentionInputs \ {None} :
        /\ EffectiveSettings(PutRetentionSettingsHandler(World, 1, n, None, now), 1).maxCount
              = EffectiveSettings(World, 1).maxCount
        /\ EffectiveSettings(PutRetentionSettingsHandler(World, 1, None, n, now), 1).maxDays
              = EffectiveSettings(World, 1).maxDays

PartialSettingsInDb ==
    \A n \in RetentionInputs \ {None} :
        /\ GetSnapshotSettings(DbPutRetentionSettingsHandler(db, 1, n, None, now), 1).max_count
              = GetSnapshotSettings(db, 1).max_count
        /\ GetSnapshotSettings(DbPutRetentionSettingsHandler(db, 1, None, n, now), 1).max_days
              = GetSnapshotSettings(db, 1).max_days

\* C33: an update of the retention settings that gives only one of maxDays
\* and maxCount leaves the other at the value in effect before the update,
\* the defaults 30 and 100 included when it was never set.
C33_PartialSettingsUpdate ==
    /\ PartialSettingsInMemory
    /\ PartialSettingsInDb


\* the images within the size limit
AcceptedImages == {n \in ImageLengths : n > 0 /\ ~ImageTooLarge(n)}

\* the last entry holds the image, and the export refers to it last
KeepsImage(entries, image) ==
    /\ entries # << >>
    /\ entries[Len(entries)].image = Some(image)
    /\ MarkdownImages(entries) # << >>
    /\ MarkdownImages(entries)[Len(MarkdownImages(entries))] = image

\* the in-memory server: the state the request answers with, and the state
\* a later GET /api/state of the same day answers with
ImageKeptInMemory ==
    \A text \in Texts, image \in AcceptedImages :
        LET after == AddEntryHandler(World, 1, text, image, now)
        IN /\ HasState(after, 1)
           /\ KeepsImage(State(after, 1).entries, image)
           /\ State(after, 1).date = CurrentDate =>
                 KeepsImage(State(CheckDateTransition(after, 1, now), 1).entries, image)

ImageKeptInDb ==
    \A text \in Texts, image \in AcceptedImages :
        LET after == DbAddEntryHandler(db, 1, text, image, now)
        IN KeepsImage(DbGetUserState(after, 1, now).entries, image)

\* C34: an entry added with an image within the size limit keeps it: the
\* state the request answers with, the state a later request of the same
\* day answers with and the export of the day hold the entry with its image.
C34_EntryKeepsImage ==
    /\ ImageKeptInMemory
    /\ ImageKeptInDb


\* {h}h {m}m {s}s without its zero leading units: every unit below the
\* first non-zero one, and the seconds alone when there is none
LeadingZerosOmitted(parts, seconds) ==
    LET h == seconds \div 3600
        m == (seconds % 3600) \div 60
        sec == seconds % 60
        all == << Part(h, "h"), Part(m, "m"), Part(sec, "s") >>
        first == IF h # 0 THEN 1 ELSE IF m # 0 THEN 2 ELSE 3
    IN parts = SubSeq(all, first, 3)

\* the durations the state of user 1 holds
DurationsOf(u) ==
    {State(World, u).durationTrackers[i].value :
        i \in DOMAIN State(World, u).durationTrackers}

FormatInMultiUser ==
    \A seconds \in DurationsOf(1) :
        LeadingZerosOmitted(FormatDuration(seconds), seconds)

FormatInSingle ==
    \A seconds \in DurationsOf(1) :
        LeadingZerosOmitted(SingleFormatDuration(seconds), seconds)

\* C35: formatDuration(seconds) gives {h}h {m}m {s}s without its zero
\* leading units only: every unit below the first non-zero unit is there
\* even when it is zero, and the seconds are the only unit when hours and
\* minutes are both zero (0 seconds gives 0s).
C35_FormatDuration ==
    /\ FormatInMultiUser
    /\ FormatInSingle


\* the whole minutes from the reference date to the clock
ElapsedWholeMinutes(then, t) ==
    (t \div 60000) - then.min + (((t % 60000) - then.ms) \div 60000)

\* the breakdown of a number of whole minutes by successive floor division
\* and remainder, largest unit first, a year being 365.25 days and a month
\* 30.44 days (MonthTenths tenths of a minute)
Breakdown(total) ==
    LET years == total \div MinutesPerYear
        r1 == total % MinutesPerYear
        months == (r1 * 10) \div MonthTenths
        r2 == r1 - (months * MonthTenths) \div 10
        weeks == r2 \div 10080
        r3 == r2 % 10080
        days == r3 \div 1440
        r4 == r3 % 1440
    IN << Part(years, "y"), Part(months, "mo"), Part(weeks, "w"), Part(days, "d"),
          Part(r4 \div 60, "h"), Part(r4 % 60, "m") >>

\* the units shown: those that are not zero, and the minutes when every
\* larger unit is zero
Shown(units) ==
    LET largerAllZero == \A i \in 1..5 : units[i].n = 0
    IN SelectSeq(units, LAMBDA p : p.n # 0 \/ (p.unit = "m" /\ largerAllZero))

\* the time-since trackers of user 1
TimeSinceOf(u) ==
    {State(World, u).timeSinceTrackers[i] : i \in DOMAIN State(World, u).timeSinceTrackers}

\* the same with the elapsed times left out at which the months left after
\* the years are a whole number of tenths of MonthTenths
TimeSinceOffMonthBoundary ==
    \A tr \in TimeSinceOf(1) :
        LET total == ElapsedWholeMinutes(tr.date, now)
        IN (total >= 0 /\ ((total % MinutesPerYear) * 10) % MonthTenths # 0) =>
              /\ CalculateTimeSince(tr.date, now) = Shown(Breakdown(total))
              /\ CalculateTimeSince(tr.date, now) # << >>

\* C36: for a reference date not later than the clock, calculateTimeSince
\* breaks the elapsed whole minutes into years (365.25 days), months (30.44
\* days), weeks, days, hours and minutes by successive floor division and
\* remainder, largest unit first, and leaves out every unit that is zero,
\* except that the minutes are shown when every larger unit is zero; the
\* result is never empty.
C36_TimeSinceBreakdown ==
    \A tr \in TimeSinceOf(1) :
        LET total == ElapsedWholeMinutes(tr.date, now)
        IN total >= 0 =>
              /\ CalculateTimeSince(tr.date, now) = Shown(Breakdown(total))
              /\ CalculateTimeSince(tr.date, now) # << >>

Abs(n) == IF n < 0 THEN 0 - n ELSE n

\* tenths of a minute in one of each unit
TenthsOf(unit) ==
    CASE unit = "y" -> 10 * MinutesPerYear
      [] unit = "mo" -> MonthTenths
      [] unit = "w" -> 100800
      [] unit = "d" -> 14400
      [] unit = "h" -> 600
      [] unit = "m" -> 10

RECURSIVE ShownTenths(_)
ShownTenths(parts) ==
    IF parts = << >> THEN 0
    ELSE Head(parts).n * TenthsOf(Head(parts).unit) + ShownTenths(Tail(parts))

\* the units shown, converted back, lie less than a minute from the
\* distance between the reference date and the clock
WithinAMinute(then, t) ==
    LET diff == ElapsedWholeMinutes(then, t)
        rem == ((t % 60000) - then.ms) % 60000
        wholeMinutes == IF diff >= 0 THEN diff
                        ELSE IF rem = 0 THEN 0 - diff ELSE 0 - diff - 1
        restMs == IF diff >= 0 \/ rem = 0 THEN rem ELSE 60000 - rem
        shown == ShownTenths(CalculateTimeSince(then, t))
        over == (shown \div 10) - wholeMinutes
    IN /\ over \in -1..1
       /\ Abs(over * 60000 + (shown % 10) * 6000 - restMs) < 60000

NonNegativeUnits(then, t) ==
    LET n == TimeSinceUnits(then, t)
    IN /\ n.years >= 0 /\ n.months >= 0 /\ n.weeks >= 0
       /\ n.days >= 0 /\ n.hours >= 0 /\ n.minutes >= 0

\* the same for the reference dates not later than the clock
TimeSincePastOnly ==
    \A tr \in TimeSinceOf(1) :
        ElapsedWholeMinutes(tr.date, now) >= 0 =>
            /\ NonNegativeUnits(tr.date, now)
            /\ WithinAMinute(tr.date, now)

\* C37: for every reference date, one later than the clock included, every
\* unit count of calculateTimeSince is non-negative, and the units shown,
\* converted back to minutes, differ from the distance in minutes between
\* the clock and the reference date by less than one minute.
C37_TimeSinceEitherDirection ==
    \A tr \in TimeSinceOf(1) :
        /\ NonNegativeUnits(tr.date, now)
        /\ WithinAMinute(tr.date, now)


\* every double quote of the value has a backslash before it
NoBareQuote(value) ==
    \A i \in 1..Len(value) :
        value[i] = "\"" => (i > 1 /\ value[i - 1] = "\\")

\* the user names a request can come with
Usernames == {None} \cup {Some(str) : str \in StringsUpTo(MaxLen) \ {<< >>}}

\* the same for the values the code puts through replace: the names of the
\* trackers, the values of the fields and the texts of the tasks
EscapedWhereReplaced ==
    \A value \in QuotedValues([State(World, 1) EXCEPT !.customCounters = << >>], None) :
        NoBareQuote(value)

\* C38: in the front matter of the export every user-supplied string put
\* between double quotes (user name, tracker names, counter names, values
\* of template and one-off fields, task texts) has each of its double
\* quotes escaped: no value emitted holds a double quote without a
\* backslash before it.
C38_QuotesEscaped ==
    \A username \in Usernames :
        \A value \in QuotedValues(State(World, 1), username) : NoBareQuote(value)

====
